---------------------------- MODULE Spec2Model ----------------------------
(***************************************************************************)
(* A model of the Fractal compiler (SteliosKem/Fractal): the type          *)
(* equality of Lexer/Type.h, the Pratt parser of Parser/Parser.cpp, the    *)
(* semantic analyzer of Analysis/SemanticAnalyzer.cpp and the code         *)
(* generator with its legalizer of CodeGeneration/CodeGenerator.cpp.       *)
(*                                                                         *)
(* Each component is a state machine of its own (SpecTypes, SpecParser,    *)
(* SpecAnalyzer, SpecGenerator); the variables of the components a         *)
(* specification does not run stay at their idle values.                   *)
(***************************************************************************)
EXTENDS Integers, Sequences, FiniteSets, TLC

VARIABLES
    \* sameType(a, b) of Type.h: the two arguments, the call's position, its result
    tyA, tyB, tyPc, tyResult,
    \* Parser: the token list handed to parse, the parser's m_programFile, the
    \* errors its ErrorHandler holds, the call's position and the value returned
    pTokens, m_programFile, pErrors, pPc, pResult,
    \* SemanticAnalyzer: the program as it was handed to analyze, the tree
    \* m_program as the analyzer leaves it, the analyzer's fields, the call's
    \* position and the value returned
    aSource, m_program, analyzer, aPc, aResult,
    \* CodeGenerator: the tree as it was handed to generate, the tree as the
    \* lowering leaves it, the platform, the generator's fields (and the
    \* build's choices) and the call's position
    gSource, gProgram, gPlatform, codeGenerator, gPc,
    \* validateInstructions by itself: the list it was first handed, the list
    \* now, the list before the last pass, the passes made and the position
    lSource, lInstructions, lPrevious, lPasses, lPc,
    \* Lexer: whether the path handed to analyze holds a file, the file's content,
    \* the lexer's fields, the call's position and the value returned
    lxExists, lxContent, lexer, lxPc, lxResult,
    \* IntelCodeEmission: the emitter's fields, the arguments of the last call of
    \* emit, the string it returned and the number of calls made on the object
    emitter, eInstructions, eExternals, ePlatform, eResult, eCalls,
    \* buildProject: whether build_config.json exists, the architecture it names,
    \* whether the source file exists, its content, and the build
    bConfigExists, bArchitecture, bFileExists, bContent, build,
    \* the execution of a lowered expression: the expression, the instruction
    \* list of the function that holds it, and the machine
    mExpression, mPlatform, mInstructions, machine,
    \* the analyses of one program in one process: the parsed program, whether
    \* each analysis gets a new SemanticAnalyzer, the analyzer last used with
    \* the function-local static counters, and the trees and results so far
    rSource, rObject, rAnalyzer, rPrograms, rPc

typeVars == <<tyA, tyB, tyPc, tyResult>>

parserVars == <<pTokens, m_programFile, pErrors, pPc, pResult>>

analyzerVars == <<aSource, m_program, analyzer, aPc, aResult>>

generatorVars == <<gSource, gProgram, gPlatform, codeGenerator, gPc>>

legalizerVars == <<lSource, lInstructions, lPrevious, lPasses, lPc>>

lexerVars == <<lxExists, lxContent, lexer, lxPc, lxResult>>

emitterVars == <<emitter, eInstructions, eExternals, ePlatform, eResult, eCalls>>

buildVars == <<bConfigExists, bArchitecture, bFileExists, bContent, build>>

machineVars == <<mExpression, mPlatform, mInstructions, machine>>

compilationVars == <<rSource, rObject, rAnalyzer, rPrograms, rPc>>

(***************************************************************************)
(* Helpers on sequences.                                                   *)
(***************************************************************************)
\* std::vector::emplace(begin() + (i - 1), x): x becomes element i (1-based)
InsertAt(list, i, x) ==
    SubSeq(list, 1, i - 1) \o <<x>> \o SubSeq(list, i, Len(list))

\* all sequences over S of length 0..n
SeqsUpTo(S, n) == UNION {[1..k -> S] : k \in 0..n}

(***************************************************************************)
(* Lexer/Type.h: the Type hierarchy and sameType.                          *)
(***************************************************************************)
\* a TypePtr that holds no object
NullTypePtr == [typeInfo |-> "nullptr"]

FundamentalType(basic) == [typeInfo |-> "Fundamental", type |-> basic]

UserDefinedType(n) == [typeInfo |-> "UserDefined", name |-> n]

PointerType(t) == [typeInfo |-> "Pointer", pointingType |-> t]

ArrayType(t) == [typeInfo |-> "Array", arrayType |-> t]

FunctionType(ret, params) ==
    [typeInfo |-> "Function", returnType |-> ret, parameterTypes |-> params]

RECURSIVE sameType(_, _)
sameType(a, b) ==
    IF a.typeInfo # b.typeInfo THEN FALSE
    ELSE CASE a.typeInfo = "Fundamental" -> a.type = b.type
           [] a.typeInfo = "UserDefined" -> a.name = b.name
           [] a.typeInfo = "Array" -> sameType(a.arrayType, b.arrayType)
           [] a.typeInfo = "Pointer" -> sameType(a.pointingType, b.pointingType)
           [] a.typeInfo = "Function" ->
                IF ~sameType(a.returnType, b.returnType) THEN FALSE
                ELSE IF Len(a.parameterTypes) # Len(b.parameterTypes) THEN FALSE
                ELSE IF \E i \in 1..Len(a.parameterTypes) :
                            ~sameType(a.parameterTypes[i], b.parameterTypes[i])
                     THEN FALSE
                     \* the case's block ends without a return or break and
                     \* control falls into `default: return false`
                     ELSE FALSE
           [] OTHER -> FALSE

(***************************************************************************)
(* Parser/Nodes.h: the nodes of the syntax tree.  Every expression carries *)
(* the expressionType field of the Expression base class, null until the   *)
(* analyzer sets it.  Positions are left out.                              *)
(***************************************************************************)
\* an ExpressionPtr / StatementPtr that holds no object
NullNode == [nodeType |-> "nullptr"]

IntegerLiteral(v) ==
    [nodeType |-> "IntegerLiteral", value |-> v, expressionType |-> NullTypePtr]

FloatLiteral(v) ==
    [nodeType |-> "FloatLiteral", value |-> v, expressionType |-> NullTypePtr]

StringLiteral(v) ==
    [nodeType |-> "StringLiteral", value |-> v, expressionType |-> NullTypePtr]

CharacterLiteral(v) ==
    [nodeType |-> "CharacterLiteral", value |-> v, expressionType |-> NullTypePtr]

ArrayList(elems) ==
    [nodeType |-> "ArrayList", elements |-> elems, elementType |-> NullTypePtr,
     expressionType |-> NullTypePtr]

UnaryOperation(opToken, e) ==
    [nodeType |-> "UnaryOperation", operatorToken |-> opToken, expression |-> e,
     expressionType |-> NullTypePtr]

BinaryOperation(l, opToken, r) ==
    [nodeType |-> "BinaryOperation", left |-> l, operatorToken |-> opToken,
     right |-> r, expressionType |-> NullTypePtr]

Identifier(tok) ==
    [nodeType |-> "Identifier", idToken |-> tok, expressionType |-> NullTypePtr]

Assignment(l, opToken, r) ==
    [nodeType |-> "Assignment", left |-> l, operatorToken |-> opToken,
     right |-> r, expressionType |-> NullTypePtr]

MemberAccess(l, opToken, r) ==
    [nodeType |-> "MemberAccess", left |-> l, operatorToken |-> opToken,
     right |-> r, expressionType |-> NullTypePtr]

\* argumentList holds the arguments' expressions (an Argument's name is always "")
Call(tok, args) ==
    [nodeType |-> "Call", funcToken |-> tok, argumentList |-> args,
     expressionType |-> NullTypePtr]

NullStatement == [nodeType |-> "NullStatement"]

CompoundStatement(stmts) == [nodeType |-> "CompoundStatement", statements |-> stmts]

ExpressionStatement(e) == [nodeType |-> "ExpressionStatement", expression |-> e]

ReturnStatement(e) == [nodeType |-> "ReturnStatement", expression |-> e]

IfStatement(c, t, e) ==
    [nodeType |-> "IfStatement", condition |-> c, ifBody |-> t, elseBody |-> e]

LoopStatement(b) == [nodeType |-> "LoopStatement", loopBody |-> b]

WhileStatement(c, b) == [nodeType |-> "WhileStatement", condition |-> c, loopBody |-> b]

BreakStatement == [nodeType |-> "BreakStatement", loopIndex |-> 0]

ContinueStatement == [nodeType |-> "ContinueStatement", loopIndex |-> 0]

Parameter(tok, t) == [nameToken |-> tok, type |-> t]

FunctionDefinition(tok, params, ret, body) ==
    [nodeType |-> "FunctionDefinition", nameToken |-> tok, parameterList |-> params,
     returnType |-> ret, functionBody |-> body]

VariableDefinition(tok, t, init, const, global) ==
    [nodeType |-> "VariableDefinition", nameToken |-> tok, variableType |-> t,
     initializer |-> init, isConst |-> const, isGlobal |-> global]

ProgramFile(defs, stmts) == [definitions |-> defs, statements |-> stmts]

(***************************************************************************)
(* Lexer/Token.h: tokens.  A token's value is its lexeme.                  *)
(***************************************************************************)
Token(type, value) == [type |-> type, value |-> value]

isTypeToken(token) ==
    token.type \in {"KEY_I8", "KEY_I16", "KEY_I32", "KEY_I64",
                    "KEY_F32", "KEY_F64", "KEY_BOOL", "KEY_NULL"}

getBasicType(token) ==
    CASE token.type \in {"KEY_I8", "KEY_I16", "KEY_I32"} -> "I32"
      [] token.type = "KEY_I64" -> "I64"
      [] token.type = "KEY_F32" -> "F64"
      [] token.type = "KEY_F64" -> "F32"
      [] token.type = "KEY_BOOL" -> "I32"
      [] OTHER -> "Null"

(***************************************************************************)
(* Utilities.cpp and Lexer/Lexer.cpp.  A file's content and m_sourceCode   *)
(* are sequences of characters (strings of length one; Nul is the          *)
(* character '\0').  A lexer state lx holds the fields of the Lexer, the   *)
(* errors reported to the ErrorHandler and whether the run reached         *)
(* undefined behaviour; the tokens of m_tokens carry their position.       *)
(***************************************************************************)
Nul == "NUL"

Position(startIndex, endIndex, lineIndexOffset, line) ==
    [startIndex |-> startIndex, endIndex |-> endIndex,
     lineIndexOffset |-> lineIndexOffset, line |-> line]

TokenAt(type, value, position) == [type |-> type, value |-> value, position |-> position]

KEYWORD_MAP ==
    [let |-> "LET", and |-> "AND", or |-> "OR", true |-> "TRUE", false |-> "FALSE",
     if |-> "IF", else |-> "ELSE", while |-> "WHILE", loop |-> "LOOP", for |-> "FOR",
     return |-> "RETURN", fn |-> "FUNCTION", external |-> "EXTERNAL",
     internal |-> "INTERNAL", global |-> "GLOBAL", do |-> "DO", break |-> "BREAK",
     continue |-> "CONTINUE", class |-> "CLASS", private |-> "PRIVATE",
     public |-> "PUBLIC", this |-> "THIS", enum |-> "ENUM", i8 |-> "KEY_I8",
     i16 |-> "KEY_I16", i32 |-> "KEY_I32", i64 |-> "KEY_I64", f32 |-> "KEY_F32",
     f64 |-> "KEY_F64", bool |-> "KEY_BOOL", null |-> "KEY_NULL", match |-> "MATCH",
     const |-> "CONST"]

getKeyword(name) == IF name \in DOMAIN KEYWORD_MAP THEN KEYWORD_MAP[name] ELSE "NO_TYPE"

isDigit(character) == character \in {"0", "1", "2", "3", "4", "5", "6", "7", "8", "9"}

isLetter(character) ==
    character \in {"a", "b", "c", "d", "e", "f", "g", "h", "i", "j", "k", "l", "m",
                   "n", "o", "p", "q", "r", "s", "t", "u", "v", "w", "x", "y", "z",
                   "A", "B", "C", "D", "E", "F", "G", "H", "I", "J", "K", "L", "M",
                   "N", "O", "P", "Q", "R", "S", "T", "U", "V", "W", "X", "Y", "Z", "_"}

isAlphanumeric(character) == isDigit(character) \/ isLetter(character)

RECURSIVE readFileFrom(_, _, _)
\* the getline loop of readFile from character i on: every line read is
\* appended with a '\n'; a getline that extracts nothing at the end fails
readFileFrom(content, i, fileContents) ==
    IF i > Len(content) THEN fileContents
    ELSE LET ends == {j \in i..Len(content) : content[j] = "\n"}
             stop == IF ends = {} THEN Len(content) + 1
                     ELSE CHOOSE j \in ends : \A k \in ends : j <= k
         IN  readFileFrom(content, stop + 1,
                          fileContents \o SubSeq(content, i, stop - 1) \o <<"\n">>)

\* the file as it is, its last line left without a '\n'
readFileAsIs(content) == content

readFile(content) == readFileFrom(content, 1, <<>>)

NewLexer ==
    [m_currentSourceIndex |-> -1, m_currentCharacter |-> Nul, m_currentLine |-> 0,
     m_currentPosition |-> Position(0, 0, 0, 0), m_sourceCode |-> <<>>,
     m_tokens |-> <<>>, errors |-> <<>>, undefined |-> FALSE]

\* Lexer::advance(1)
lexerAdvance(lx) ==
    [lx EXCEPT !.m_currentSourceIndex = @ + 1,
               !.m_currentCharacter =
                   IF lx.m_currentSourceIndex + 1 < Len(lx.m_sourceCode)
                   THEN lx.m_sourceCode[lx.m_currentSourceIndex + 2] ELSE Nul,
               !.m_currentPosition.startIndex = lx.m_currentSourceIndex + 1,
               !.m_currentPosition.endIndex = lx.m_currentSourceIndex + 1]

\* Lexer::peek
lexerPeek(lx, depth) ==
    IF lx.m_currentSourceIndex + depth < Len(lx.m_sourceCode)
    THEN lx.m_sourceCode[lx.m_currentSourceIndex + depth + 1] ELSE Nul

\* Lexer::match
lexerMatch(lx, character) ==
    IF lexerPeek(lx, 1) = character THEN [lx |-> lexerAdvance(lx), matched |-> TRUE]
    ELSE [lx |-> lx, matched |-> FALSE]

currentCharacter(lx) == lx.m_currentCharacter

lexerError(lx, message, position) ==
    [lx EXCEPT !.errors = Append(@, [message |-> message, position |-> position])]

handleNewline(lx) ==
    lexerAdvance([lx EXCEPT !.m_currentLine = @ + 1,
                            !.m_currentPosition.line = lx.m_currentLine + 1,
                            !.m_currentPosition.lineIndexOffset =
                                lx.m_currentSourceIndex + 1])

RECURSIVE singleLineComment(_)
\* `while (currentCharacter() != '\n' || currentCharacter() == '\0') advance();`
\* past the end of the source every character is '\0' and the loop goes on
\* until the signed index overflows
singleLineComment(lx) ==
    IF currentCharacter(lx) = "\n" THEN lx
    ELSE IF lx.m_currentSourceIndex >= Len(lx.m_sourceCode)
    THEN [lx EXCEPT !.undefined = TRUE]
    ELSE singleLineComment(lexerAdvance(lx))

RECURSIVE multiLineComment(_)
\* the loop of the multi-line comment: left at '\0' or after `*/`
multiLineComment(lx) ==
    IF currentCharacter(lx) = Nul THEN lx
    ELSE IF currentCharacter(lx) = "*" /\ lexerPeek(lx, 1) = "/"
    THEN lexerAdvance(lexerAdvance(lx))
    ELSE IF currentCharacter(lx) = "\n" THEN multiLineComment(handleNewline(lx))
    ELSE multiLineComment(lexerAdvance(lx))

RECURSIVE handleWhitespace(_)
handleWhitespace(lx) ==
    CASE currentCharacter(lx) \in {" ", "\t"} -> handleWhitespace(lexerAdvance(lx))
      [] currentCharacter(lx) = "\n" -> handleWhitespace(handleNewline(lx))
      [] currentCharacter(lx) = "/" /\ lexerPeek(lx, 1) = "/" ->
            IF singleLineComment(lx).undefined THEN singleLineComment(lx)
            ELSE handleWhitespace(handleNewline(singleLineComment(lx)))
      [] currentCharacter(lx) = "/" /\ lexerPeek(lx, 1) = "*" ->
            IF currentCharacter(multiLineComment(lx)) = Nul THEN multiLineComment(lx)
            ELSE handleWhitespace(multiLineComment(lx))
      [] OTHER -> lx

RECURSIVE makeNumberTokenFrom(_, _, _, _)
makeNumberTokenFrom(lx, numberValue, isFloatingPoint, position) ==
    IF isDigit(currentCharacter(lx)) \/ currentCharacter(lx) = "."
    THEN IF currentCharacter(lx) = "." /\ isFloatingPoint
         THEN [lx |-> lexerError(lx, "Unexpected '.'", lx.m_currentPosition),
               token |-> TokenAt("SPECIAL_ERROR", "Unexpected '.'", lx.m_currentPosition)]
         ELSE makeNumberTokenFrom(lexerAdvance(lx), numberValue \o currentCharacter(lx),
                                  isFloatingPoint \/ currentCharacter(lx) = ".", position)
    ELSE [lx |-> lx,
          token |-> TokenAt(IF isFloatingPoint THEN "TYPE_FLOAT" ELSE "TYPE_INTEGER",
                            numberValue,
                            [position EXCEPT !.endIndex = lx.m_currentSourceIndex - 1])]

makeNumberToken(lx) == makeNumberTokenFrom(lx, "", FALSE, lx.m_currentPosition)

RECURSIVE makeNameTokenFrom(_, _, _)
makeNameTokenFrom(lx, nameString, position) ==
    IF isAlphanumeric(currentCharacter(lx))
    THEN makeNameTokenFrom(lexerAdvance(lx), nameString \o currentCharacter(lx), position)
    ELSE [lx |-> lx,
          token |-> TokenAt(IF getKeyword(nameString) = "NO_TYPE" THEN "IDENTIFIER"
                            ELSE getKeyword(nameString),
                            nameString,
                            [position EXCEPT !.endIndex = lx.m_currentSourceIndex])]

makeNameToken(lx) == makeNameTokenFrom(lx, "", lx.m_currentPosition)

RECURSIVE makeStringTokenFrom(_, _, _, _, _)
makeStringTokenFrom(lx, character, string, position, lastPos) ==
    IF currentCharacter(lx) # character /\ currentCharacter(lx) # Nul
         /\ currentCharacter(lx) # "\n"
    THEN makeStringTokenFrom(lexerAdvance(lx), character, string \o currentCharacter(lx),
                             position, lx.m_currentPosition)
    ELSE [lx |-> lexerAdvance(
                    IF currentCharacter(lx) # character
                    THEN lexerError(lx, "Unterminated string or character literal", lastPos)
                    ELSE lx),
          token |-> TokenAt(IF character = "\"" THEN "STRING_LITERAL"
                            ELSE "CHARACTER_LITERAL",
                            string,
                            [position EXCEPT !.endIndex = lx.m_currentSourceIndex])]

makeStringToken(lx, character) ==
    makeStringTokenFrom(lexerAdvance(lx), character, "", lx.m_currentPosition,
                        lx.m_currentPosition)

\* the macro SINGLE_CHARACTER
SINGLE_CHARACTER(lx, y) ==
    [lx |-> lexerAdvance(lx),
     token |-> TokenAt(y, currentCharacter(lx), lx.m_currentPosition)]

\* the macro DOUBLE_OR_SINGLE; nextPosition is the position with endIndex + 1
DOUBLE_OR_SINGLE(lx, first_char_name, second_char_match, double_char_str, double_char_name) ==
    [lx |-> lexerAdvance(lexerMatch(lx, second_char_match).lx),
     token |-> IF lexerMatch(lx, second_char_match).matched
               THEN TokenAt(double_char_name, double_char_str,
                            [lx.m_currentPosition EXCEPT !.endIndex = @ + 1])
               ELSE TokenAt(first_char_name, currentCharacter(lx), lx.m_currentPosition)]

SingleCharacterTypes ==
    [c \in {"(", ")", "{", "}", "[", "]", ";", ",", ".", "^", "&", "~", "%", ":"} |->
        CASE c = "(" -> "LEFT_PARENTHESIS"
          [] c = ")" -> "RIGHT_PARENTHESIS"
          [] c = "{" -> "LEFT_BRACE"
          [] c = "}" -> "RIGHT_BRACE"
          [] c = "[" -> "LEFT_BRACKET"
          [] c = "]" -> "RIGHT_BRACKET"
          [] c = ";" -> "SEMICOLON"
          [] c = "," -> "COMMA"
          [] c = "." -> "DOT"
          [] c = "^" -> "CAP"
          [] c = "&" -> "AMPERSAND"
          [] c = "~" -> "TILDE"
          [] c = "%" -> "PERCENT"
          [] c = ":" -> "COLON"]

\* the switch of lex, on the state handleWhitespace left
lexSwitch(lx) ==
    CASE currentCharacter(lx) \in DOMAIN SingleCharacterTypes ->
            SINGLE_CHARACTER(lx, SingleCharacterTypes[currentCharacter(lx)])
      [] currentCharacter(lx) = "+" -> DOUBLE_OR_SINGLE(lx, "PLUS", "=", "+=", "PLUS_EQUAL")
      [] currentCharacter(lx) = "*" -> DOUBLE_OR_SINGLE(lx, "STAR", "=", "*=", "STAR_EQUAL")
      [] currentCharacter(lx) = "/" -> DOUBLE_OR_SINGLE(lx, "SLASH", "=", "/=", "SLASH_EQUAL")
      [] currentCharacter(lx) = "!" -> DOUBLE_OR_SINGLE(lx, "BANG", "=", "!=", "BANG_EQUAL")
      [] currentCharacter(lx) = "=" ->
            IF lexerPeek(lx, 1) = ">"
            THEN [lx |-> lexerAdvance(lexerAdvance(lx)),
                  token |-> TokenAt("DOUBLE_ARROW", "=>",
                                    [lx.m_currentPosition EXCEPT !.endIndex = @ + 1])]
            ELSE DOUBLE_OR_SINGLE(lx, "EQUAL", "=", "==", "EQUAL_EQUAL")
      [] currentCharacter(lx) = "<" -> DOUBLE_OR_SINGLE(lx, "LESS", "=", "<=", "LESS_EQUAL")
      [] currentCharacter(lx) = ">" ->
            DOUBLE_OR_SINGLE(lx, "GREATER", "=", ">=", "GREATER_EQUAL")
      [] currentCharacter(lx) = "-" ->
            IF lexerPeek(lx, 1) = ">"
            THEN [lx |-> lexerAdvance(lexerAdvance(lx)),
                  token |-> TokenAt("ARROW", "->",
                                    [lx.m_currentPosition EXCEPT !.endIndex = @ + 1])]
            ELSE DOUBLE_OR_SINGLE(lx, "MINUS", "=", "-=", "MINUS_EQUAL")
      [] currentCharacter(lx) \in {"'", "\""} -> makeStringToken(lx, currentCharacter(lx))
      [] currentCharacter(lx) = Nul ->
            [lx |-> lx, token |-> TokenAt("SPECIAL_EOF", "EOF", lx.m_currentPosition)]
      [] OTHER ->
            [lx |-> lexerError(lx, "Unkown Character '" \o currentCharacter(lx) \o "'",
                               lx.m_currentPosition),
             token |-> TokenAt("SPECIAL_ERROR", "", lx.m_currentPosition)]

\* lex after handleWhitespace
lexToken(lx) ==
    IF lx.undefined THEN [lx |-> lx, token |-> TokenAt("NO_TYPE", "", lx.m_currentPosition)]
    ELSE IF isDigit(currentCharacter(lx)) THEN makeNumberToken(lx)
    ELSE IF isLetter(currentCharacter(lx)) THEN makeNameToken(lx)
    ELSE lexSwitch(lx)

lex(lx) == lexToken(handleWhitespace(lx))

hasLexerErrors(lx) == lx.errors # <<>>

\* m_tokens.push_back(lex())
pushToken(r) == [r.lx EXCEPT !.m_tokens = Append(@, r.token)]

RECURSIVE lexerAnalyzeLoop(_)
\* the while loop of Lexer::analyze
lexerAnalyzeLoop(lx) ==
    IF currentCharacter(lx) # Nul /\ ~hasLexerErrors(lx) /\ ~lx.undefined
    THEN lexerAnalyzeLoop(pushToken(lex(lx)))
    ELSE lx

\* Lexer::analyze on a path that holds no file (exists = FALSE) or a file of
\* the given content: the state left and the value returned
lexerAnalyze(lx, exists, content) ==
    IF ~exists
    THEN [lx |-> lexerError([lx EXCEPT !.m_currentSourceIndex = -1],
                            "No valid file specified.", Position(0, 0, 0, 0)),
          result |-> FALSE]
    ELSE [lx |-> lexerAnalyzeLoop(
                    lexerAdvance([lx EXCEPT !.m_currentSourceIndex = -1,
                                            !.m_sourceCode = readFile(content),
                                            !.m_currentLine = 1,
                                            !.m_currentPosition.line = 1,
                                            !.m_tokens = <<>>])),
          result |-> ~hasLexerErrors(
                        lexerAnalyzeLoop(
                           lexerAdvance([lx EXCEPT !.m_currentSourceIndex = -1,
                                                   !.m_sourceCode = readFile(content),
                                                   !.m_currentLine = 1,
                                                   !.m_currentPosition.line = 1,
                                                   !.m_tokens = <<>>])))]

(***************************************************************************)
(* Parser/Parser.cpp.  A parser state p holds m_tokenList (tokens),        *)
(* m_currentIndex (idx, counted from 0) and the errors reported to the     *)
(* ErrorHandler; every parsing method returns the state it leaves and the  *)
(* node (or type) it built.                                                *)
(***************************************************************************)
\* a table that gives every infix token the power of `+`
tokenBindingPowerUniform(token) ==
    IF token.type \in {"DOT", "ARROW", "STAR", "SLASH", "PLUS", "MINUS", "GREATER", "LESS",
                       "GREATER_EQUAL", "LESS_EQUAL", "EQUAL_EQUAL", "BANG_EQUAL",
                       "AND", "OR", "EQUAL"}
    THEN 70 ELSE 0

tokenBindingPower(token) ==
    CASE token.type \in {"DOT", "ARROW"} -> 110
      [] token.type \in {"STAR", "SLASH"} -> 80
      [] token.type \in {"PLUS", "MINUS"} -> 70
      [] token.type \in {"GREATER", "LESS", "GREATER_EQUAL", "LESS_EQUAL"} -> 60
      [] token.type \in {"EQUAL_EQUAL", "BANG_EQUAL"} -> 50
      [] token.type = "AND" -> 40
      [] token.type = "OR" -> 30
      [] token.type = "EQUAL" -> 20
      [] OTHER -> 0

\* m_currentToken follows m_currentIndex while the index is inside the list
currentToken(p) ==
    p.tokens[IF p.idx < Len(p.tokens) THEN p.idx + 1 ELSE Len(p.tokens)]

advance(p) == [p EXCEPT !.idx = @ + 1]

reportError(p, message) == [p EXCEPT !.errors = Append(@, message)]

match(p, type) == currentToken(p).type = type

consume(p, type, errorMessage) ==
    IF currentToken(p).type = type THEN advance(p) ELSE reportError(p, errorMessage)

peek(p, depth) ==
    IF p.idx + depth < Len(p.tokens) THEN p.tokens[p.idx + depth + 1]
    ELSE p.tokens[Len(p.tokens)]

RECURSIVE parseType(_)
parseType(p) ==
    CASE currentToken(p).type = "LEFT_PARENTHESIS" ->
            LET r == parseType(advance(p))
            IN  [p |-> consume(r.p, "RIGHT_PARENTHESIS", "Expected ')'"),
                 type |-> PointerType(r.type)]
      [] currentToken(p).type = "LEFT_BRACKET" ->
            LET r == parseType(advance(p))
            IN  [p |-> consume(r.p, "RIGHT_BRACKET", "Expected ']'"),
                 type |-> ArrayType(r.type)]
      [] OTHER ->
            IF ~isTypeToken(currentToken(p))
            THEN [p |-> advance(p), type |-> UserDefinedType(currentToken(p).value)]
            ELSE [p |-> advance(p), type |-> FundamentalType(getBasicType(currentToken(p)))]

\* the largest integer literal of the token streams
MaxLiteral == 9

\* std::stoi: the number whose decimal form is the lexeme
stoi(value) == CHOOSE n \in 0..MaxLiteral : ToString(n) = value

\* std::stof keeps the lexeme's value; the model keeps the lexeme
expressionLiteral(token) ==
    CASE token.type = "TYPE_INTEGER" -> IntegerLiteral(stoi(token.value))
      [] token.type = "TYPE_FLOAT" -> FloatLiteral(token.value)
      [] token.type = "STRING_LITERAL" -> StringLiteral(token.value)
      [] token.type = "CHARACTER_LITERAL" -> CharacterLiteral(token.value)
      [] OTHER -> NullNode

RECURSIVE parseNode(_, _, _)
\* the methods that the constructs of the grammar call one another through
parseExpression(p, bindingPower) == parseNode("parseExpression", p, bindingPower)

parseStatement(p) == parseNode("parseStatement", p, 0)

parseDefinition(p) == parseNode("parseDefinition", p, 0)

\* the while loop of parse
parseLoop(p, programFile) == parseNode("parseLoop", p, programFile)

RECURSIVE nud(_, _)
RECURSIVE led(_, _, _)
RECURSIVE ledLoop(_, _, _)
RECURSIVE expressionCallArguments(_, _)
RECURSIVE expressionArrayElements(_, _)

expressionUnary(p, token) ==
    LET r == parseExpression(p, 100)
    IN  [p |-> r.p, node |-> UnaryOperation(token, r.node)]

expressionGroup(p, token) ==
    LET r == parseExpression(p, 0)
    IN  IF currentToken(r.p).type # "RIGHT_PARENTHESIS"
        THEN [p |-> reportError(r.p, "Expected ')'"), node |-> NullNode]
        ELSE [p |-> advance(r.p), node |-> r.node]

\* the argument loop of expressionCall
expressionCallArguments(p, argList) ==
    IF ~match(p, "RIGHT_PARENTHESIS") /\ ~match(p, "SPECIAL_EOF")
    THEN LET r == parseExpression(p, 0)
             args == Append(argList, r.node)
         IN  IF match(r.p, "COMMA") THEN expressionCallArguments(advance(r.p), args)
             ELSE IF ~match(r.p, "RIGHT_PARENTHESIS") THEN [p |-> r.p, list |-> args]
             ELSE expressionCallArguments(r.p, args)
    ELSE [p |-> p, list |-> argList]

expressionCall(p, token) ==
    LET r == expressionCallArguments(advance(p), <<>>)
    IN  [p |-> consume(r.p, "RIGHT_PARENTHESIS", "Expected ')'"),
         node |-> Call(token, r.list)]

expressionIdentifier(p, token) ==
    IF match(p, "LEFT_PARENTHESIS") THEN expressionCall(p, token)
    ELSE [p |-> p, node |-> Identifier(token)]

\* the element loop of expressionArray
expressionArrayElements(p, expressions) ==
    IF ~match(p, "RIGHT_BRACKET") /\ ~match(p, "SPECIAL_EOF")
    THEN LET r == parseExpression(p, 0)
             elems == Append(expressions, r.node)
         IN  IF match(r.p, "COMMA") THEN expressionArrayElements(advance(r.p), elems)
             ELSE IF ~match(r.p, "RIGHT_BRACKET") THEN [p |-> r.p, list |-> elems]
             ELSE expressionArrayElements(r.p, elems)
    ELSE [p |-> p, list |-> expressions]

expressionArray(p) ==
    LET r == expressionArrayElements(p, <<>>)
    IN  [p |-> consume(r.p, "RIGHT_BRACKET", "Expected ']'"),
         node |-> ArrayList(r.list)]

nud(p, token) ==
    CASE token.type \in {"TYPE_INTEGER", "TYPE_FLOAT", "STRING_LITERAL",
                         "CHARACTER_LITERAL"} ->
            [p |-> p, node |-> expressionLiteral(token)]
      [] token.type \in {"MINUS", "BANG", "TILDE"} -> expressionUnary(p, token)
      [] token.type = "LEFT_PARENTHESIS" -> expressionGroup(p, token)
      [] token.type = "IDENTIFIER" -> expressionIdentifier(p, token)
      [] token.type = "LEFT_BRACKET" -> expressionArray(p)
      [] OTHER -> [p |-> reportError(p, "Expected expression "), node |-> NullNode]

led(p, token, left) ==
    CASE token.type \in {"PLUS", "MINUS", "STAR", "GREATER", "LESS", "EQUAL_EQUAL",
                         "BANG_EQUAL", "GREATER_EQUAL", "LESS_EQUAL", "SLASH"} ->
            LET r == parseExpression(p, tokenBindingPower(token))
            IN  [p |-> r.p, node |-> BinaryOperation(left, token, r.node)]
      [] token.type = "EQUAL" ->
            LET r == parseExpression(p, tokenBindingPower(token))
            IN  [p |-> r.p, node |-> Assignment(left, token, r.node)]
      [] token.type \in {"ARROW", "DOT"} ->
            LET r == parseExpression(p, tokenBindingPower(token))
            IN  [p |-> r.p, node |-> MemberAccess(left, token, r.node)]
      [] OTHER -> [p |-> p, node |-> NullNode]

\* the while loop of parseExpression
ledLoop(p, left, bindingPower) ==
    IF tokenBindingPower(currentToken(p)) > bindingPower
    THEN LET r == led(advance(p), currentToken(p), left)
         IN  ledLoop(r.p, r.node, bindingPower)
    ELSE [p |-> p, node |-> left]

definitionVariable(p, isGlobal) ==
    LET isConst == match(p, "CONST")
        p1 == advance(p)
        nameToken == currentToken(p1)
        p2 == consume(p1, "IDENTIFIER", "Expected a variable name")
        specifiedType == match(p2, "COLON")
        t == IF specifiedType THEN parseType(advance(p2))
             ELSE [p |-> p2, type |-> FundamentalType("None")]
        i == IF match(t.p, "EQUAL") THEN parseExpression(advance(t.p), 0)
             ELSE IF ~specifiedType
                  THEN [p |-> reportError(t.p,
                                "A type must be specified if no initializer is given"),
                        node |-> NullNode]
                  ELSE [p |-> t.p, node |-> NullNode]
    IN  [p |-> consume(i.p, "SEMICOLON", "Expected ';'"),
         node |-> VariableDefinition(nameToken, t.type, i.node, isConst, isGlobal)]

statementNull(p) == [p |-> advance(p), node |-> NullStatement]

statementReturn(p) ==
    LET r == parseExpression(advance(p), 0)
    IN  [p |-> consume(r.p, "SEMICOLON", "Expected ';'"),
         node |-> ReturnStatement(r.node)]

statementExpression(p) ==
    LET r == parseExpression(p, 0)
    IN  [p |-> consume(r.p, "SEMICOLON", "Expected ';'"),
         node |-> ExpressionStatement(r.node)]

statementBreak(p) ==
    [p |-> consume(advance(p), "SEMICOLON", "Expected ';'"), node |-> BreakStatement]

statementContinue(p) ==
    [p |-> consume(advance(p), "SEMICOLON", "Expected ';'"), node |-> ContinueStatement]

RECURSIVE statementCompoundStatements(_, _)

\* the statement loop of statementCompound
statementCompoundStatements(p, statements) ==
    IF ~match(p, "RIGHT_BRACE") /\ ~match(p, "SPECIAL_EOF")
    THEN LET r == parseStatement(p)
         IN  statementCompoundStatements(r.p, Append(statements, r.node))
    ELSE [p |-> p, list |-> statements]

statementCompound(p) ==
    LET r == statementCompoundStatements(advance(p), <<>>)
    IN  [p |-> consume(r.p, "RIGHT_BRACE", "Expected '}'"),
         node |-> CompoundStatement(r.list)]

statementIf(p) ==
    LET c == parseExpression(advance(p), 0)
        t == parseStatement(consume(c.p, "DOUBLE_ARROW", "Expected '=>'"))
        e == IF match(t.p, "ELSE") THEN parseStatement(advance(t.p))
             ELSE [p |-> t.p, node |-> NullNode]
    IN  [p |-> e.p, node |-> IfStatement(c.node, t.node, e.node)]

statementLoop(p) ==
    LET b == parseStatement(advance(p))
    IN  [p |-> b.p, node |-> LoopStatement(b.node)]

statementWhile(p) ==
    LET c == parseExpression(advance(p), 0)
        b == parseStatement(consume(c.p, "DOUBLE_ARROW", "Expected '=>'"))
    IN  [p |-> b.p, node |-> WhileStatement(c.node, b.node)]

RECURSIVE definitionFunctionParameters(_, _)
\* the parameter loop of definitionFunction
definitionFunctionParameters(p, parameterList) ==
    IF ~match(p, "RIGHT_PARENTHESIS") /\ ~match(p, "SPECIAL_EOF")
    THEN LET paramToken == currentToken(p)
             p1 == consume(p, "IDENTIFIER", "Expected parameter name")
             p2 == consume(p1, "COLON",
                     "Expected ':' after parameter name to specify the parameter type")
             t == parseType(p2)
             params == Append(parameterList, Parameter(paramToken, t.type))
         IN  IF match(t.p, "COMMA") THEN definitionFunctionParameters(advance(t.p), params)
             ELSE IF ~match(t.p, "RIGHT_PARENTHESIS") THEN [p |-> t.p, list |-> params]
             ELSE definitionFunctionParameters(t.p, params)
    ELSE [p |-> p, list |-> parameterList]

definitionFunction(p) ==
    LET p1 == advance(p)
        nameToken == currentToken(p1)
        p2 == consume(p1, "IDENTIFIER", "Expected a function name after 'fn'")
        ps == IF match(p2, "LEFT_PARENTHESIS")
              THEN LET r == definitionFunctionParameters(advance(p2), <<>>)
                   IN  [p |-> consume(r.p, "RIGHT_PARENTHESIS",
                                      "Expected ')' after function arguments"),
                        list |-> r.list]
              ELSE [p |-> p2, list |-> <<>>]
        rt == IF match(ps.p, "COLON") THEN parseType(advance(ps.p))
              ELSE [p |-> ps.p, type |-> FundamentalType("Null")]
        body == parseStatement(rt.p)
    IN  [p |-> body.p,
         node |-> FunctionDefinition(nameToken, ps.list, rt.type, body.node)]

ClassDefinition(name, members) ==
    [nodeType |-> "ClassDefinition", className |-> name, definitions |-> members]

RECURSIVE definitionClassMembers(_, _)

\* the member loop of definitionClass
definitionClassMembers(p, classMembers) ==
    IF ~match(p, "RIGHT_BRACE") /\ ~match(p, "SPECIAL_EOF")
    THEN IF match(p, "PUBLIC") \/ match(p, "PRIVATE")
         THEN LET def == parseDefinition(advance(p))
                  decoration == IF match(p, "PUBLIC") THEN "Public" ELSE "Private"
              IN  IF def.node = NullNode THEN [p |-> def.p, list |-> classMembers]
                  ELSE definitionClassMembers(def.p,
                           Append(classMembers, <<def.node, decoration>>))
         ELSE definitionClassMembers(
                  advance(reportError(p, "Expected member definition")), classMembers)
    ELSE [p |-> p, list |-> classMembers]

definitionClass(p) ==
    LET p1 == advance(p)
        nameToken == currentToken(p1)
        p2 == consume(p1, "IDENTIFIER", "Expected class name")
        p3 == consume(p2, "LEFT_BRACE", "Expected '{' after class name")
        r == definitionClassMembers(p3, <<>>)
    IN  [p |-> consume(r.p, "RIGHT_BRACE", "Expected '}'"),
         node |-> ClassDefinition(nameToken.value, r.list)]

RECURSIVE handleDefinitionsLoop(_, _)
\* the definition loop of handleDefinitions
handleDefinitionsLoop(p, definitions) ==
    LET r == parseDefinition(p)
    IN  IF r.node # NullNode THEN handleDefinitionsLoop(r.p, Append(definitions, r.node))
        ELSE [p |-> p, list |-> definitions]

\* returns the parser state and m_programFile.definitions
handleDefinitions(p, definitions) ==
    LET r == handleDefinitionsLoop(advance(advance(advance(p))), definitions)
        q == r.p
    IN  IF ~(/\ currentToken(q).type = "LESS"
             /\ peek(q, 1).type = "BANG"
             /\ peek(q, 2).value = "define"
             /\ peek(q, 3).type = "GREATER")
        THEN [p |-> reportError(q, "Expected end of definition set '<!define>'"),
              list |-> r.list]
        ELSE [p |-> advance(advance(advance(advance(q)))), list |-> r.list]

hasErrors(p) == p.errors # <<>>

\* parseExpression takes the binding power and parseLoop the program file;
\* parseStatement and parseDefinition switch on the current token
parseNode(method, p, argument) ==
    CASE method = "parseExpression" ->
        LET n == nud(advance(p), currentToken(p))
        IN  ledLoop(n.p, n.node, argument)
      [] method = "parseStatement" ->
        (CASE currentToken(p).type = "SEMICOLON" -> statementNull(p)
           [] currentToken(p).type = "LEFT_BRACE" -> statementCompound(p)
           [] currentToken(p).type = "RETURN" -> statementReturn(p)
           [] currentToken(p).type = "IF" -> statementIf(p)
           [] currentToken(p).type = "LOOP" -> statementLoop(p)
           [] currentToken(p).type = "WHILE" -> statementWhile(p)
           [] currentToken(p).type = "BREAK" -> statementBreak(p)
           [] currentToken(p).type = "CONTINUE" -> statementContinue(p)
           [] currentToken(p).type \in {"LET", "CONST"} -> definitionVariable(p, FALSE)
           [] OTHER -> statementExpression(p))
      [] method = "parseDefinition" ->
        (CASE currentToken(p).type = "FUNCTION" -> definitionFunction(p)
           [] currentToken(p).type \in {"LET", "CONST"} -> definitionVariable(p, TRUE)
           [] currentToken(p).type = "CLASS" -> definitionClass(p)
           [] OTHER -> [p |-> p, node |-> NullNode])
      [] method = "parseLoop" ->
        IF currentToken(p).type # "SPECIAL_EOF" /\ ~hasErrors(p)
        THEN IF /\ currentToken(p).type = "LESS"
                /\ peek(p, 1).value = "define"
                /\ peek(p, 2).type = "GREATER"
             THEN LET r == handleDefinitions(p, argument.definitions)
                  IN  parseLoop(r.p, [argument EXCEPT !.definitions = r.list])
             ELSE LET r == parseStatement(p)
                  IN  parseLoop(r.p, [argument EXCEPT !.statements = Append(@, r.node)])
        ELSE [p |-> p, programFile |-> argument]

\* Parser::parse on a parser that holds programFile and an ErrorHandler that
\* holds errors: the state left, the program and the value returned
parse(tokens, programFile, errors) ==
    LET r == parseLoop(advance([tokens |-> tokens, idx |-> -1, errors |-> errors]),
                       programFile)
    IN  [p |-> r.p, programFile |-> r.programFile, result |-> ~hasErrors(r.p)]

(***************************************************************************)
(* Lexer/Type.h: typeName.  sameType and typeName call through the         *)
(* pointers they are given; the two predicates below say when such a call  *)
(* goes through a null pointer, which is undefined behaviour.              *)
(***************************************************************************)
basicTypeName(type) ==
    CASE type = "Null" -> "Null"
      [] type = "I32" -> "i32"
      [] type = "I64" -> "i64"
      [] type = "F32" -> "f32"
      [] type = "F64" -> "f64"
      [] type = "String" -> "String"
      [] type = "Character" -> "Char"
      [] OTHER -> ""

RECURSIVE typeNameList(_, _)
RECURSIVE typeName(_)
typeName(t) ==
    CASE t.typeInfo = "Fundamental" -> basicTypeName(t.type)
      [] t.typeInfo = "UserDefined" -> t.name
      [] t.typeInfo = "Pointer" -> "(" \o typeName(t.pointingType) \o ")"
      [] t.typeInfo = "Array" -> "[" \o typeName(t.arrayType) \o "]"
      [] t.typeInfo = "Function" ->
            "func<" \o typeName(t.returnType) \o "(" \o typeNameList(t.parameterTypes, 1) \o ")"
      [] OTHER -> ""

typeNameList(types, i) ==
    IF i > Len(types) THEN ""
    ELSE typeName(types[i]) \o ", " \o typeNameList(types, i + 1)

RECURSIVE typeNameDerefsNull(_)
typeNameDerefsNull(t) ==
    CASE t.typeInfo = "nullptr" -> TRUE
      [] t.typeInfo = "Pointer" -> typeNameDerefsNull(t.pointingType)
      [] t.typeInfo = "Array" -> typeNameDerefsNull(t.arrayType)
      [] t.typeInfo = "Function" ->
            \/ typeNameDerefsNull(t.returnType)
            \/ \E i \in 1..Len(t.parameterTypes) : typeNameDerefsNull(t.parameterTypes[i])
      [] OTHER -> FALSE

RECURSIVE sameTypeDerefsNull(_, _)
sameTypeDerefsNull(a, b) ==
    IF a.typeInfo = "nullptr" \/ b.typeInfo = "nullptr" THEN TRUE
    ELSE IF a.typeInfo # b.typeInfo THEN FALSE
    ELSE CASE a.typeInfo = "Array" -> sameTypeDerefsNull(a.arrayType, b.arrayType)
           [] a.typeInfo = "Pointer" -> sameTypeDerefsNull(a.pointingType, b.pointingType)
           [] a.typeInfo = "Function" ->
                \/ sameTypeDerefsNull(a.returnType, b.returnType)
                \/ /\ sameType(a.returnType, b.returnType)
                   /\ Len(a.parameterTypes) = Len(b.parameterTypes)
                   /\ \E i \in 1..Len(a.parameterTypes) :
                         /\ \A j \in 1..(i - 1) :
                               sameType(a.parameterTypes[j], b.parameterTypes[j])
                         /\ sameTypeDerefsNull(a.parameterTypes[i], b.parameterTypes[i])
           [] OTHER -> FALSE

(***************************************************************************)
(* Analysis/SemanticAnalyzer.cpp.  An analyzer state a holds the fields of *)
(* the SemanticAnalyzer, the static counters of createUnique (index) and   *)
(* uniqueLoop (loopIndex), the errors and warnings reported to the         *)
(* ErrorHandler, and whether the run went through a null pointer           *)
(* (undefined).  The analyzer writes into the tree it is given; every      *)
(* analyze method returns the state it leaves, the node as it leaves it    *)
(* and its boolean result.                                                 *)
(***************************************************************************)
SymbolEntry(name, type) == [name |-> name, type |-> type]

EmptySymbolTable == [k \in {} |-> SymbolEntry("", NullTypePtr)]

NewAnalyzer ==
    [m_globalTable |-> EmptySymbolTable, m_currentFunction |-> NullTypePtr,
     m_localStack |-> <<>>, m_loopStack |-> <<>>, m_userDefinedTypes |-> <<>>,
     index |-> 0, loopIndex |-> 0, errors |-> <<>>, warnings |-> <<>>,
     undefined |-> FALSE]

findNameGlobal(a, nameToken) == nameToken.value \in DOMAIN a.m_globalTable

\* the index (from 0) of the innermost scope that holds the name, or -1
findNameLocal(a, nameToken) ==
    LET found == {i \in 1..Len(a.m_localStack) :
                     nameToken.value \in DOMAIN a.m_localStack[i]}
    IN  IF found = {} THEN -1
        ELSE (CHOOSE i \in found : \A j \in found : j <= i) - 1

createUnique(a, name) ==
    [a |-> [a EXCEPT !.index = @ + 1], name |-> name \o "." \o ToString(a.index)]

uniqueLoop(a) ==
    [a |-> [a EXCEPT !.loopIndex = (@ + 1) % 256], index |-> a.loopIndex]

pushScope(a) == [a EXCEPT !.m_localStack = Append(@, EmptySymbolTable)]

popScope(a) == [a EXCEPT !.m_localStack = SubSeq(@, 1, Len(@) - 1)]

\* topScope()[key] = entry
topScopeInsert(a, key, entry) ==
    [a EXCEPT !.m_localStack[Len(a.m_localStack)] = (key :> entry) @@ @]

analyzerError(a, message) == [a EXCEPT !.errors = Append(@, message)]

analyzerWarning(a, message) == [a EXCEPT !.warnings = Append(@, message)]

nullDereference(a) == [a EXCEPT !.undefined = TRUE]

\* the state after a call sameType(x, y)
afterSameType(a, x, y) == IF sameTypeDerefsNull(x, y) THEN nullDereference(a) ELSE a

\* the state after reporting an error whose message names the types x and y
typeError(a, x, y, message) ==
    IF typeNameDerefsNull(x) \/ typeNameDerefsNull(y) THEN nullDereference(a)
    ELSE analyzerError(a, message)

RECURSIVE analyzeNode(_, _, _)
analyzeExpression(a, e) == analyzeNode("analyzeExpression", a, e)

analyzeStatement(a, s) == analyzeNode("analyzeStatement", a, s)

analyzeDefinition(a, d) == analyzeNode("analyzeDefinition", a, d)

analyze(a, program) == analyzeNode("analyze", a, program)

analyzeExpressionInteger(a, e) ==
    [a |-> a, node |-> [e EXCEPT !.expressionType = FundamentalType("I32")], ok |-> TRUE]

analyzeExpressionString(a, e) ==
    [a |-> a, node |-> [e EXCEPT !.expressionType = FundamentalType("String")], ok |-> TRUE]

analyzeExpressionCharacter(a, e) ==
    [a |-> a, node |-> [e EXCEPT !.expressionType = FundamentalType("Character")], ok |-> TRUE]

analyzeExpressionFloat(a, e) ==
    [a |-> a, node |-> [e EXCEPT !.expressionType = FundamentalType("F32")], ok |-> TRUE]

RECURSIVE analyzeExpressionArrayRest(_, _, _, _)
\* the loop over elements[1..] (i counts from 1 here, so it starts at 2)
analyzeExpressionArrayRest(a, elements, i, firstType) ==
    IF i > Len(elements) THEN [a |-> a, list |-> elements, ok |-> TRUE]
    ELSE LET r == analyzeExpression(a, elements[i])
             elems == [elements EXCEPT ![i] = r.node]
         IN  IF ~r.ok THEN [a |-> r.a, list |-> elems, ok |-> FALSE]
             ELSE IF ~sameType(r.node.expressionType, firstType)
             THEN [a |-> typeError(afterSameType(r.a, r.node.expressionType, firstType),
                                   r.node.expressionType, firstType,
                                   "Cannot insert element of type '"
                                       \o typeName(r.node.expressionType)
                                       \o "' to array which holds elements of type '"
                                       \o typeName(firstType) \o "'"),
                   list |-> elems, ok |-> FALSE]
             ELSE analyzeExpressionArrayRest(
                      afterSameType(r.a, r.node.expressionType, firstType),
                      elems, i + 1, firstType)

analyzeExpressionArray(a, e) ==
    LET first == IF Len(e.elements) > 0 THEN analyzeExpression(a, e.elements[1])
                 ELSE [a |-> a, node |-> NullNode, ok |-> TRUE]
        elems1 == IF Len(e.elements) > 0 THEN [e.elements EXCEPT ![1] = first.node]
                  ELSE e.elements
    IN  IF ~first.ok THEN [a |-> first.a, node |-> [e EXCEPT !.elements = elems1], ok |-> FALSE]
        ELSE LET firstType == IF Len(e.elements) > 0 THEN first.node.expressionType
                              ELSE NullTypePtr
                 rest == analyzeExpressionArrayRest(first.a, elems1, 2, firstType)
             IN  IF ~rest.ok
                 THEN [a |-> rest.a, node |-> [e EXCEPT !.elements = rest.list], ok |-> FALSE]
                 ELSE [a |-> rest.a,
                       node |-> [e EXCEPT !.elements = rest.list,
                                          !.expressionType = ArrayType(firstType),
                                          !.elementType = firstType],
                       ok |-> TRUE]

analyzeExpressionBinary(a, e) ==
    LET l == analyzeExpression(a, e.left)
    IN  IF ~l.ok THEN [a |-> l.a, node |-> [e EXCEPT !.left = l.node], ok |-> FALSE]
        ELSE LET r == analyzeExpression(l.a, e.right)
                 e1 == [e EXCEPT !.left = l.node, !.right = r.node]
                 lt == l.node.expressionType
                 rt == r.node.expressionType
             IN  IF ~r.ok THEN [a |-> r.a, node |-> e1, ok |-> FALSE]
                 ELSE IF ~sameType(lt, rt)
                 THEN [a |-> typeError(afterSameType(r.a, lt, rt), rt, lt,
                                       "Cannot operate between '" \o typeName(rt)
                                           \o "' and '" \o typeName(lt) \o "' types"),
                       node |-> e1, ok |-> FALSE]
                 ELSE [a |-> afterSameType(r.a, lt, rt),
                       node |-> [e1 EXCEPT !.expressionType = lt], ok |-> TRUE]

analyzeExpressionUnary(a, e) ==
    LET r == analyzeExpression(a, e.expression)
        e1 == [e EXCEPT !.expression = r.node]
    IN  IF ~r.ok THEN [a |-> r.a, node |-> e1, ok |-> FALSE]
        ELSE [a |-> r.a, node |-> [e1 EXCEPT !.expressionType = r.node.expressionType],
              ok |-> TRUE]

\* analyzeExpressionIdentifier without the report of an undefined name
analyzeExpressionIdentifierSilent(a, e) ==
    IF findNameLocal(a, e.idToken) > -1
    THEN [a |-> a,
          node |-> [e EXCEPT !.expressionType =
                                 a.m_localStack[findNameLocal(a, e.idToken) + 1]
                                               [e.idToken.value].type,
                             !.idToken.value =
                                 a.m_localStack[findNameLocal(a, e.idToken) + 1]
                                               [e.idToken.value].name],
          ok |-> TRUE]
    ELSE IF ~findNameGlobal(a, e.idToken) THEN [a |-> a, node |-> e, ok |-> FALSE]
    ELSE [a |-> a,
          node |-> [e EXCEPT !.expressionType = a.m_globalTable[e.idToken.value].type],
          ok |-> TRUE]

analyzeExpressionIdentifier(a, e) ==
    LET index == findNameLocal(a, e.idToken)
    IN  IF index > -1
        THEN LET symbol == a.m_localStack[index + 1][e.idToken.value]
             IN  [a |-> a,
                  node |-> [e EXCEPT !.expressionType = symbol.type,
                                     !.idToken.value = symbol.name],
                  ok |-> TRUE]
        ELSE IF ~findNameGlobal(a, e.idToken)
        THEN [a |-> analyzerError(a, "Undefined name '" \o e.idToken.value \o "'"),
              node |-> e, ok |-> FALSE]
        ELSE [a |-> a,
              node |-> [e EXCEPT !.expressionType = a.m_globalTable[e.idToken.value].type],
              ok |-> TRUE]

RECURSIVE compareArgsToParamsFrom(_, _, _, _)
compareArgsToParamsFrom(a, paramList, call, i) ==
    IF i > Len(paramList) THEN [a |-> a, ok |-> TRUE]
    ELSE LET pt == paramList[i]
             at == call.argumentList[i].expressionType
         IN  IF ~sameType(pt, at)
             THEN [a |-> typeError(afterSameType(a, pt, at), pt, at,
                                   "Expected argument type '" \o typeName(pt)
                                       \o "', got '" \o typeName(at)),
                   ok |-> FALSE]
             ELSE compareArgsToParamsFrom(afterSameType(a, pt, at), paramList, call, i + 1)

compareArgsToParams(a, paramList, call) ==
    IF Len(paramList) # Len(call.argumentList)
    THEN [a |-> analyzerError(a, "Expected " \o ToString(Len(paramList))
                                     \o " arguments in '" \o call.funcToken.value
                                     \o "' call, but got "
                                     \o ToString(Len(call.argumentList))),
          ok |-> FALSE]
    ELSE compareArgsToParamsFrom(a, paramList, call, 1)

RECURSIVE analyzeArguments(_, _, _)
analyzeArguments(a, args, i) ==
    IF i > Len(args) THEN [a |-> a, list |-> args, ok |-> TRUE]
    ELSE LET r == analyzeExpression(a, args[i])
             args1 == [args EXCEPT ![i] = r.node]
         IN  IF ~r.ok THEN [a |-> r.a, list |-> args1, ok |-> FALSE]
             ELSE analyzeArguments(r.a, args1, i + 1)

analyzeExpressionCall(a, e) ==
    LET index == findNameLocal(a, e.funcToken)
        isLocal == index > -1
        isGlobal == ~isLocal /\ findNameGlobal(a, e.funcToken)
        symbol == IF isLocal THEN a.m_localStack[index + 1][e.funcToken.value]
                  ELSE a.m_globalTable[e.funcToken.value]
    IN  IF ~isLocal /\ ~isGlobal
        THEN [a |-> analyzerError(a, "Undefined name '" \o e.funcToken.value \o "'"),
              node |-> e, ok |-> FALSE]
        ELSE IF symbol.type.typeInfo = "nullptr"
        THEN [a |-> nullDereference(a), node |-> e, ok |-> FALSE]
        ELSE IF symbol.type.typeInfo # "Function"
        THEN [a |-> analyzerError(a, "Cannot call non-function names"),
              node |-> e, ok |-> FALSE]
        ELSE LET e1 == [e EXCEPT !.funcToken.value = IF isLocal THEN symbol.name ELSE @,
                                 !.expressionType = symbol.type.returnType]
                 args == analyzeArguments(a, e1.argumentList, 1)
                 e2 == [e1 EXCEPT !.argumentList = args.list]
             IN  IF ~args.ok THEN [a |-> args.a, node |-> e2, ok |-> FALSE]
                 ELSE LET c == compareArgsToParams(args.a, symbol.type.parameterTypes, e2)
                      IN  [a |-> c.a, node |-> e2, ok |-> c.ok]

analyzeExpressionAssignment(a, e) ==
    IF e.left.nodeType = "nullptr" THEN [a |-> nullDereference(a), node |-> e, ok |-> FALSE]
    ELSE IF e.left.nodeType \notin {"Call", "Identifier", "MemberAccess"}
    THEN [a |-> analyzerError(a, "Cannot assign to non-lvalues"), node |-> e, ok |-> FALSE]
    ELSE LET l == analyzeExpression(a, e.left)
         IN  IF ~l.ok THEN [a |-> l.a, node |-> [e EXCEPT !.left = l.node], ok |-> FALSE]
             ELSE LET r == analyzeExpression(l.a, e.right)
                      e1 == [e EXCEPT !.left = l.node, !.right = r.node]
                      lt == l.node.expressionType
                      rt == r.node.expressionType
                  IN  IF ~r.ok THEN [a |-> r.a, node |-> e1, ok |-> FALSE]
                      ELSE IF ~sameType(lt, rt)
                      THEN [a |-> typeError(afterSameType(r.a, lt, rt), rt, lt,
                                            "Cannot assign expression of type '"
                                                \o typeName(rt)
                                                \o "' to variable of type '"
                                                \o typeName(lt) \o "'"),
                            node |-> e1, ok |-> FALSE]
                      ELSE [a |-> afterSameType(r.a, lt, rt),
                            node |-> [e1 EXCEPT !.expressionType = lt], ok |-> TRUE]

analyzeExpressionMemberAccess(a, e) ==
    IF e.left.nodeType = "nullptr" \/ e.right.nodeType = "nullptr"
    THEN [a |-> nullDereference(a), node |-> e, ok |-> FALSE]
    ELSE IF e.left.nodeType \notin {"Call", "Identifier", "MemberAccess"}
    THEN [a |-> analyzerError(a, "Cannot access member of non-lvalues"),
          node |-> e, ok |-> FALSE]
    ELSE IF e.right.nodeType \notin {"Call", "Identifier", "MemberAccess"}
    THEN [a |-> analyzerError(a, "Non-lvalues are not valid members of lvalues"),
          node |-> e, ok |-> FALSE]
    ELSE IF e.left.nodeType = "Identifier"
    THEN LET l == analyzeExpression(a, e.left)
         IN  [a |-> l.a, node |-> [e EXCEPT !.left = l.node], ok |-> l.ok]
    ELSE [a |-> a, node |-> e, ok |-> TRUE]

analyzeDefinitionVariable(a, d) ==
    LET name == d.nameToken.value
        entry == SymbolEntry(name, d.variableType)
        declared ==
            IF d.isGlobal
            THEN IF findNameGlobal(a, d.nameToken)
                 THEN [a |-> analyzerError(a, "Variable '" \o name
                                                  \o "' is already defined globally"),
                       ok |-> FALSE]
                 ELSE [a |-> [a EXCEPT !.m_globalTable = (name :> entry) @@ @], ok |-> TRUE]
            ELSE IF findNameLocal(a, d.nameToken) > -1
                 THEN [a |-> analyzerError(a, "Variable '" \o name
                                                  \o "' is already defined in local scope"),
                       ok |-> FALSE]
                 ELSE IF Len(a.m_localStack) = 0
                 THEN [a |-> nullDereference(a), ok |-> FALSE]
                 ELSE [a |-> topScopeInsert(a, name, entry), ok |-> TRUE]
    IN  IF ~declared.ok THEN [a |-> declared.a, node |-> d, ok |-> FALSE]
        ELSE IF d.initializer = NullNode THEN [a |-> declared.a, node |-> d, ok |-> TRUE]
        ELSE LET i == analyzeExpression(declared.a, d.initializer)
                 d1 == [d EXCEPT !.initializer = i.node]
                 it == i.node.expressionType
             IN  IF ~i.ok THEN [a |-> i.a, node |-> d1, ok |-> FALSE]
                 ELSE IF d.variableType.typeInfo = "nullptr"
                 THEN [a |-> nullDereference(i.a), node |-> d1, ok |-> FALSE]
                 ELSE IF d.variableType.typeInfo = "Fundamental" /\ d.variableType.type = "None"
                 THEN [a |-> i.a, node |-> [d1 EXCEPT !.variableType = it], ok |-> TRUE]
                 ELSE IF ~sameType(it, d.variableType)
                 THEN [a |-> analyzerError(afterSameType(i.a, it, d.variableType),
                              "Initializer Expression does not match the variable's type"),
                       node |-> d1, ok |-> FALSE]
                 ELSE [a |-> afterSameType(i.a, it, d.variableType), node |-> d1, ok |-> TRUE]

analyzeDefinitionClass(a, d) ==
    [a |-> [a EXCEPT !.m_userDefinedTypes = Append(@, d.className)], node |-> d, ok |-> TRUE]

analyzeStatementExpression(a, s) ==
    IF s.expression.nodeType = "nullptr"
    THEN [a |-> nullDereference(a), node |-> s, ok |-> FALSE]
    ELSE LET a1 == IF s.expression.nodeType \in {"Call", "MemberAccess", "Assignment"} THEN a
                   ELSE analyzerWarning(a, "Unused expression")
             r == analyzeExpression(a1, s.expression)
         IN  [a |-> r.a, node |-> [s EXCEPT !.expression = r.node], ok |-> r.ok]

RECURSIVE analyzeStatements(_, _, _)
\* a loop `for (statement : statements) if (!analyzeStatement(statement)) return false`
analyzeStatements(a, statements, i) ==
    IF i > Len(statements) THEN [a |-> a, list |-> statements, ok |-> TRUE]
    ELSE LET r == analyzeStatement(a, statements[i])
             stmts == [statements EXCEPT ![i] = r.node]
         IN  IF ~r.ok THEN [a |-> r.a, list |-> stmts, ok |-> FALSE]
             ELSE analyzeStatements(r.a, stmts, i + 1)

\* a compound statement whose scope stays on the stack
analyzeStatementCompoundOpen(a, s) ==
    LET r == analyzeStatements(pushScope(a), s.statements, 1)
        s1 == [s EXCEPT !.statements = r.list]
    IN  IF ~r.ok THEN [a |-> r.a, node |-> s1, ok |-> FALSE]
        ELSE [a |-> r.a, node |-> s1, ok |-> TRUE]

analyzeStatementCompound(a, s) ==
    LET r == analyzeStatements(pushScope(a), s.statements, 1)
        s1 == [s EXCEPT !.statements = r.list]
    IN  IF ~r.ok THEN [a |-> r.a, node |-> s1, ok |-> FALSE]
        ELSE [a |-> popScope(r.a), node |-> s1, ok |-> TRUE]

analyzeStatementReturn(a, s) ==
    IF a.m_currentFunction = NullTypePtr
    THEN [a |-> analyzerError(a, "Cannot use return outside of a function body"),
          node |-> s, ok |-> FALSE]
    ELSE LET r == analyzeExpression(a, s.expression)
             s1 == [s EXCEPT !.expression = r.node]
             et == r.node.expressionType
             rt == a.m_currentFunction.returnType
         IN  IF ~r.ok THEN [a |-> r.a, node |-> s1, ok |-> FALSE]
             ELSE IF ~sameType(et, rt)
             THEN [a |-> typeError(afterSameType(r.a, et, rt), et, rt,
                                   "Cannot return type '" \o typeName(et)
                                       \o "' from a function which returns type '"
                                       \o typeName(rt) \o "'"),
                   node |-> s1, ok |-> FALSE]
             ELSE [a |-> afterSameType(r.a, et, rt), node |-> s1, ok |-> TRUE]

analyzeStatementIf(a, s) ==
    LET c == analyzeExpression(a, s.condition)
        s1 == [s EXCEPT !.condition = c.node]
    IN  IF ~c.ok THEN [a |-> c.a, node |-> s1, ok |-> FALSE]
        ELSE LET t == analyzeStatement(c.a, s.ifBody)
                 s2 == [s1 EXCEPT !.ifBody = t.node]
             IN  IF ~t.ok THEN [a |-> t.a, node |-> s2, ok |-> FALSE]
                 ELSE IF s.elseBody = NullNode THEN [a |-> t.a, node |-> s2, ok |-> TRUE]
                 ELSE LET e == analyzeStatement(t.a, s.elseBody)
                      IN  [a |-> e.a, node |-> [s2 EXCEPT !.elseBody = e.node], ok |-> e.ok]

analyzeStatementWhile(a, s) ==
    LET u == uniqueLoop(a)
        a1 == [u.a EXCEPT !.m_loopStack = Append(@, u.index)]
        c == analyzeExpression(a1, s.condition)
        s1 == [s EXCEPT !.condition = c.node]
    IN  IF ~c.ok THEN [a |-> c.a, node |-> s1, ok |-> FALSE]
        ELSE LET b == analyzeStatement(c.a, s.loopBody)
                 s2 == [s1 EXCEPT !.loopBody = b.node]
             IN  IF ~b.ok THEN [a |-> b.a, node |-> s2, ok |-> FALSE]
                 ELSE [a |-> [b.a EXCEPT !.m_loopStack = SubSeq(@, 1, Len(@) - 1)],
                       node |-> s2, ok |-> TRUE]

analyzeStatementLoop(a, s) ==
    LET u == uniqueLoop(a)
        a1 == [u.a EXCEPT !.m_loopStack = Append(@, u.index)]
        b == analyzeStatement(a1, s.loopBody)
        s1 == [s EXCEPT !.loopBody = b.node]
    IN  IF ~b.ok THEN [a |-> b.a, node |-> s1, ok |-> FALSE]
        ELSE [a |-> [b.a EXCEPT !.m_loopStack = SubSeq(@, 1, Len(@) - 1)],
              node |-> s1, ok |-> TRUE]

analyzeStatementBreak(a, s) ==
    IF Len(a.m_loopStack) = 0
    THEN [a |-> analyzerError(a, "Cannot use break outside of a loop"),
          node |-> s, ok |-> FALSE]
    ELSE [a |-> a, node |-> [s EXCEPT !.loopIndex = a.m_loopStack[Len(a.m_loopStack)]],
          ok |-> TRUE]

analyzeStatementContinue(a, s) ==
    IF Len(a.m_loopStack) = 0
    THEN [a |-> analyzerError(a, "Cannot use continue outside of a loop"),
          node |-> s, ok |-> FALSE]
    ELSE [a |-> a, node |-> [s EXCEPT !.loopIndex = a.m_loopStack[Len(a.m_loopStack)]],
          ok |-> TRUE]

RECURSIVE analyzeParametersFrom(_, _, _, _)
\* the loop of analyzeParameters; paramListCheck holds the names seen
analyzeParametersFrom(a, paramList, i, paramListCheck) ==
    IF i > Len(paramList) THEN [a |-> a, list |-> paramList, ok |-> TRUE]
    ELSE LET name == paramList[i].nameToken.value
             a1 == IF findNameGlobal(a, paramList[i].nameToken)
                   THEN analyzerWarning(a, "Parameter '" \o name \o "' shadows a global name")
                   ELSE a
         IN  IF name \in paramListCheck
             THEN [a |-> analyzerError(a1, "Parameter '" \o name \o "' is already defined"),
                   list |-> paramList, ok |-> FALSE]
             ELSE LET u == createUnique(a1, name)
                      a2 == topScopeInsert(u.a, name, SymbolEntry(u.name, paramList[i].type))
                  IN  analyzeParametersFrom(
                          a2, [paramList EXCEPT ![i].nameToken.value = u.name],
                          i + 1, paramListCheck \cup {name})

analyzeParameters(a, paramList) == analyzeParametersFrom(a, paramList, 1, {})

analyzeDefinitionFunction(a, d) ==
    LET a1 == pushScope(a)
        name == d.nameToken.value
    IN  IF findNameGlobal(a1, d.nameToken)
        THEN [a |-> analyzerError(a1, "Function '" \o name \o "' is already defined"),
              node |-> d, ok |-> FALSE]
        ELSE LET ps == analyzeParameters(a1, d.parameterList)
                 d1 == [d EXCEPT !.parameterList = ps.list]
             IN  IF ~ps.ok THEN [a |-> ps.a, node |-> d1, ok |-> FALSE]
                 ELSE LET parameterTypes == [i \in 1..Len(ps.list) |-> ps.list[i].type]
                          function == FunctionType(d.returnType, parameterTypes)
                          a2 == [ps.a EXCEPT
                                   !.m_currentFunction = function,
                                   !.m_globalTable = (name :> SymbolEntry(name, function)) @@ @]
                          b == analyzeStatement(a2, d1.functionBody)
                          d2 == [d1 EXCEPT !.functionBody = b.node]
                      IN  IF ~b.ok THEN [a |-> b.a, node |-> d2, ok |-> FALSE]
                          ELSE [a |-> popScope([b.a EXCEPT !.m_currentFunction = NullTypePtr]),
                                node |-> d2, ok |-> TRUE]

RECURSIVE analyzeDefinitions(_, _, _)
\* the loop over m_program->definitions
analyzeDefinitions(a, definitions, i) ==
    IF i > Len(definitions) THEN [a |-> a, list |-> definitions, ok |-> TRUE]
    ELSE LET r == analyzeDefinition(a, definitions[i])
             defs == [definitions EXCEPT ![i] = r.node]
         IN  IF ~r.ok THEN [a |-> r.a, list |-> defs, ok |-> FALSE]
             ELSE analyzeDefinitions(r.a, defs, i + 1)

\* analyzeExpression, analyzeStatement and analyzeDefinition switch on the
\* node's type; analyze runs the definitions and then the statements.
analyzeNode(method, a, n) ==
    CASE method = "analyzeExpression" ->
        (CASE n.nodeType = "nullptr" -> [a |-> nullDereference(a), node |-> n, ok |-> FALSE]
           [] n.nodeType = "IntegerLiteral" -> analyzeExpressionInteger(a, n)
           [] n.nodeType = "StringLiteral" -> analyzeExpressionString(a, n)
           [] n.nodeType = "CharacterLiteral" -> analyzeExpressionCharacter(a, n)
           [] n.nodeType = "FloatLiteral" -> analyzeExpressionFloat(a, n)
           [] n.nodeType = "ArrayList" -> analyzeExpressionArray(a, n)
           [] n.nodeType = "BinaryOperation" -> analyzeExpressionBinary(a, n)
           [] n.nodeType = "UnaryOperation" -> analyzeExpressionUnary(a, n)
           [] n.nodeType = "Identifier" -> analyzeExpressionIdentifier(a, n)
           [] n.nodeType = "Call" -> analyzeExpressionCall(a, n)
           [] n.nodeType = "Assignment" -> analyzeExpressionAssignment(a, n)
           [] n.nodeType = "MemberAccess" -> analyzeExpressionMemberAccess(a, n)
           [] OTHER -> [a |-> a, node |-> n, ok |-> FALSE])
      [] method = "analyzeStatement" ->
        (CASE n.nodeType = "nullptr" -> [a |-> nullDereference(a), node |-> n, ok |-> FALSE]
           [] n.nodeType = "CompoundStatement" -> analyzeStatementCompound(a, n)
           [] n.nodeType = "ExpressionStatement" -> analyzeStatementExpression(a, n)
           [] n.nodeType = "ReturnStatement" -> analyzeStatementReturn(a, n)
           [] n.nodeType = "LoopStatement" -> analyzeStatementLoop(a, n)
           [] n.nodeType = "IfStatement" -> analyzeStatementIf(a, n)
           [] n.nodeType = "WhileStatement" -> analyzeStatementWhile(a, n)
           [] n.nodeType = "BreakStatement" -> analyzeStatementBreak(a, n)
           [] n.nodeType = "ContinueStatement" -> analyzeStatementContinue(a, n)
           [] n.nodeType = "VariableDefinition" -> analyzeDefinitionVariable(a, n)
           [] n.nodeType = "NullStatement" -> [a |-> a, node |-> n, ok |-> TRUE]
           [] OTHER -> [a |-> a, node |-> n, ok |-> FALSE])
      [] method = "analyzeDefinition" ->
        (CASE n.nodeType = "nullptr" -> [a |-> nullDereference(a), node |-> n, ok |-> FALSE]
           [] n.nodeType = "FunctionDefinition" -> analyzeDefinitionFunction(a, n)
           [] n.nodeType = "VariableDefinition" -> analyzeDefinitionVariable(a, n)
           [] n.nodeType = "ClassDefinition" -> analyzeDefinitionClass(a, n)
           [] OTHER -> [a |-> a, node |-> n, ok |-> FALSE])
      [] method = "analyze" ->
        LET a0 == [a EXCEPT !.m_localStack = <<>>]
            ds == analyzeDefinitions(a0, n.definitions, 1)
            p1 == [n EXCEPT !.definitions = ds.list]
        IN  IF ~ds.ok THEN [a |-> ds.a, program |-> p1, result |-> FALSE]
            ELSE LET ss == analyzeStatements(pushScope(ds.a), n.statements, 1)
                     p2 == [p1 EXCEPT !.statements = ss.list]
                 IN  IF ~ss.ok THEN [a |-> ss.a, program |-> p2, result |-> FALSE]
                     ELSE [a |-> popScope(ss.a), program |-> p2, result |-> TRUE]

(***************************************************************************)
(* CodeGeneration/Instructions.h: operands and instructions.               *)
(***************************************************************************)
Byte == 1

DWord == 4

QWord == 8

\* an OperandPtr that holds no object
NullOperand == [type |-> "nullptr"]

IntegerConstant(integer) == [type |-> "IntegerConstant", integer |-> integer]

RegisterOperand(register, size) == [type |-> "Register", reg |-> register, size |-> size]

TempOperand(stackOffest, size) == [type |-> "Temp", stackOffest |-> stackOffest, size |-> size]

\* IntegerConstant keeps the Operand base's size, DWord
getSize(operand) ==
    IF operand.type \in {"Register", "Temp"} THEN operand.size ELSE DWord

FunctionDefInstruction(name, instructions, stackAlloc) ==
    [type |-> "FunctionDefinition", name |-> name, instructions |-> instructions,
     stackAlloc |-> stackAlloc]

ReturnInstruction == [type |-> "Return"]

CdqInstruction == [type |-> "Cdq"]

DivInstruction(destination) == [type |-> "Divide", destination |-> destination]

(***************************************************************************)
(* CodeGeneration/CodeGenerator.cpp: the instruction and operand builders. *)
(***************************************************************************)
move(source, destination) ==
    [type |-> "Move", source |-> source, destination |-> destination, signExtend |-> FALSE]

label(name) == [type |-> "Label", name |-> name]

negate(source) == [type |-> "Negate", source |-> source]

bitwiseNot(source) == [type |-> "BitwiseNot", source |-> source]

add(destination, other) == [type |-> "Add", destination |-> destination, other |-> other]

sub(destination, other) == [type |-> "Subtract", destination |-> destination, other |-> other]

mul(destination, other) == [type |-> "Multiply", destination |-> destination, other |-> other]

reg(register, size) == RegisterOperand(register, size)

cmp(left, right) == [type |-> "Compare", left |-> left, right |-> right]

set(operand, comparison) == [type |-> "Set", destination |-> operand, comparison |-> comparison]

jmp(name, comparison) == [type |-> "Jump", label |-> name, comparison |-> comparison]

call(func) == [type |-> "Call", func |-> func]

push(src) == [type |-> "Push", src |-> src]

intConst(integer) == IntegerConstant(integer)

(***************************************************************************)
(* CodeGeneration/CodeGenerator.cpp: the legalizer.  Every validate method *)
(* returns the instruction list as it leaves it; i counts from 1.          *)
(***************************************************************************)
isTemp(operand) == operand.type = "Temp"

validateMoveOperands(instructions, i, source, destination) ==
    IF isTemp(source) /\ isTemp(destination)
    THEN LET scratchReg == reg("R10", getSize(source))
         IN  InsertAt([instructions EXCEPT ![i].destination = scratchReg], i + 1,
                      move(scratchReg, destination))
    ELSE instructions

validateBinOperands(instructions, i, source, other) ==
    IF isTemp(source) /\ isTemp(other)
    THEN LET scratchReg == reg("R10", DWord)
         IN  InsertAt([instructions EXCEPT ![i].other = scratchReg], i,
                      move(other, scratchReg))
    ELSE instructions

validateMove(instructions, i) ==
    LET moveInstruction == instructions[i]
    IN  IF getSize(moveInstruction.destination) > getSize(moveInstruction.source)
        THEN LET scratchReg == reg("AX", getSize(moveInstruction.destination))
                 oldDest == moveInstruction.destination
             IN  InsertAt([instructions EXCEPT ![i].destination = scratchReg,
                                               ![i].signExtend = TRUE],
                          i + 1, move(scratchReg, oldDest))
        ELSE validateMoveOperands(instructions, i, moveInstruction.source,
                                  moveInstruction.destination)

validateAdd(instructions, i) ==
    validateBinOperands(instructions, i, instructions[i].destination, instructions[i].other)

validateSub(instructions, i) ==
    validateBinOperands(instructions, i, instructions[i].destination, instructions[i].other)

validateMul(instructions, i) ==
    IF isTemp(instructions[i].destination)
    THEN LET scratchReg == reg("R11", DWord)
             oldDestination == instructions[i].destination
             first == InsertAt([instructions EXCEPT ![i].destination = scratchReg], i,
                               move(oldDestination, scratchReg))
         IN  InsertAt(first, i + 2, move(scratchReg, oldDestination))
    ELSE instructions

validateDiv(instructions, i) == instructions

\* a validateCmp that rewrites nothing: a legalizer that leaves Compare alone
\* must not pass for the real one
validateCmpOmitted(instructions, i) == instructions

validateCmp(instructions, i) ==
    IF instructions[i].left.type = "IntegerConstant" \/ isTemp(instructions[i].left)
    THEN LET scratchReg == reg("AX", DWord)
             oldLeft == instructions[i].left
         IN  InsertAt([instructions EXCEPT ![i].left = scratchReg], i,
                      move(oldLeft, scratchReg))
    ELSE instructions

validatePush(instructions, i) ==
    IF instructions[i].src.type # "IntegerConstant" /\ getSize(instructions[i].src) # QWord
    THEN LET scratchReg == reg("AX", QWord)
         IN  [InsertAt(instructions, i, move(instructions[i].src, scratchReg))
                 EXCEPT ![i + 1].src = scratchReg]
    ELSE instructions

RECURSIVE validateInstructionsFrom(_, _)
RECURSIVE validateIterations(_, _, _)

validateInstructions(instructions) == validateInstructionsFrom(instructions, 1)

validateFunction(instruction) ==
    [instruction EXCEPT !.instructions = validateInstructions(@)]

\* the switch of validateInstructions on the type of instruction i
validateInstructionAt(instructions, i) ==
    LET type == instructions[i].type
    IN  CASE type = "FunctionDefinition" ->
               [instructions EXCEPT ![i] = validateFunction(@)]
          [] type = "Move" -> validateMove(instructions, i)
          [] type = "Add" -> validateAdd(instructions, i)
          [] type = "Subtract" -> validateSub(instructions, i)
          [] type = "Multiply" -> validateMul(instructions, i)
          [] type = "Divide" -> validateDiv(instructions, i)
          [] type = "Compare" -> validateCmp(instructions, i)
          [] type = "Push" -> validatePush(instructions, i)
          [] OTHER -> instructions

\* the number of iterations of the loop that are evaluated in one go
Stride == 16

\* up to count iterations of the loop of validateInstructions from index i on:
\* the list and the index they leave
validateIterations(instructions, i, count) ==
    IF count = 0 \/ i > Len(instructions) THEN [instructions |-> instructions, i |-> i]
    ELSE validateIterations(validateInstructionAt(instructions, i), i + 1, count - 1)

\* the loop of validateInstructions from index i on; the list grows under it
validateInstructionsFrom(instructions, i) ==
    IF i > Len(instructions) THEN instructions
    ELSE LET done == validateIterations(instructions, i, Stride)
         IN  validateInstructionsFrom(done.instructions, done.i)

RECURSIVE validateDerefsNull(_)
\* whether validateInstructions reads the type or size of a null operand
validateDerefsNull(instructions) ==
    \E i \in 1..Len(instructions) :
       LET n == instructions[i]
       IN  CASE n.type = "FunctionDefinition" -> validateDerefsNull(n.instructions)
             [] n.type = "Move" -> n.source = NullOperand \/ n.destination = NullOperand
             [] n.type \in {"Add", "Subtract"} ->
                    \/ n.destination = NullOperand
                    \/ (isTemp(n.destination) /\ n.other = NullOperand)
             [] n.type = "Multiply" -> n.destination = NullOperand
             [] n.type = "Compare" -> n.left = NullOperand
             [] n.type = "Push" -> n.src = NullOperand
             [] OTHER -> FALSE

(***************************************************************************)
(* CodeGeneration/CodeGenerator.cpp: lowering.  A generator state g holds  *)
(* the fields of the CodeGenerator, whether the run went through undefined *)
(* behaviour (undefined), and the two things the build decides: the order  *)
(* in which the two arguments of cmp(...) in generateRelational are        *)
(* evaluated (argumentOrder) and what generateDecoratedDefinition reads as *)
(* the decorator of a FunctionDefinition it is handed by the missing break *)
(* of generateDefinition (decoratorRead).  Every generate method returns   *)
(* the state it leaves, the instruction list it appended to and, for an    *)
(* expression, the operand that holds the value.                           *)
(***************************************************************************)
LoopInfo(startLabel, exitLabel) == [startLabel |-> startLabel, exitLabel |-> exitLabel]

EmptyVarMap == [k \in {} |-> NullOperand]

NewCodeGenerator(argumentOrder, decoratorRead) ==
    [m_instructions |-> <<>>, m_currentStackIndex |-> 0, m_localVarMap |-> EmptyVarMap,
     m_currentComparisonIndex |-> 0, m_currentIfIndex |-> 0, m_currentLoopIndex |-> 0,
     m_loopStack |-> <<>>, m_platform |-> "Win", m_externals |-> <<>>,
     undefined |-> FALSE, argumentOrder |-> argumentOrder, decoratorRead |-> decoratorRead]

undefinedBehaviour(g) == [g EXCEPT !.undefined = TRUE]

\* getTypeSize returns a value for Fundamental I32 and I64 only
getTypeSizeReturns(type) ==
    type.typeInfo = "Fundamental" /\ type.type \in {"I32", "I64"}

getTypeSize(type) ==
    IF getTypeSizeReturns(type) /\ type.type = "I64" THEN QWord ELSE DWord

\* the state after a call getTypeSize(type)
afterGetTypeSize(g, type) == IF getTypeSizeReturns(type) THEN g ELSE undefinedBehaviour(g)

\* the cursor as it was before the allocation
allocateStackBefore(g, size) ==
    [g |-> [g EXCEPT !.m_currentStackIndex = @ + size], offset |-> g.m_currentStackIndex]

allocateStack(g, size) ==
    [g |-> [g EXCEPT !.m_currentStackIndex = @ + size],
     offset |-> g.m_currentStackIndex + size]

generateComparisonIndex(g) ==
    [g |-> [g EXCEPT !.m_currentComparisonIndex = @ + 1],
     index |-> g.m_currentComparisonIndex + 1]

\* an index that is handed out again
generateIfIndexAgain(g) == [g |-> g, index |-> g.m_currentIfIndex + 1]

generateIfIndex(g) ==
    [g |-> [g EXCEPT !.m_currentIfIndex = @ + 1], index |-> g.m_currentIfIndex + 1]

argumentRegisters(platform) ==
    IF platform = "Win" THEN <<"CX", "DX", "R8", "R9">>
    ELSE <<"DI", "SI", "DX", "CX", "R8", "R9">>

\* `rest` once `step` has its value: the code ends one step before it begins
\* the next, where TLC would evaluate a step's result at the place the next
\* step first reads it
Sequenced(step, rest) == IF step = step THEN rest ELSE rest

RECURSIVE generateNode(_, _, _, _)

\* the three methods that switch on a node's type call, through the methods
\* they switch to, one another: generateNode holds their switches
generateExpression(g, e, instructions) == generateNode("generateExpression", g, e, instructions)

generateStatement(g, s, instructions) == generateNode("generateStatement", g, s, instructions)

generateDefinition(g, d, instructions) == generateNode("generateDefinition", g, d, instructions)

\* generate clears m_instructions and stores the platform before it lowers
generate(g, program, platform) ==
    generateNode("generate", [g EXCEPT !.m_instructions = <<>>, !.m_platform = platform],
                 program, <<>>)

\* m_localVarMap[name]: a name the map does not hold is added with a null operand
getIdentifier(g, e, instructions) ==
    LET name == e.idToken.value
    IN  IF name \in DOMAIN g.m_localVarMap
        THEN [g |-> g, instructions |-> instructions, operand |-> g.m_localVarMap[name]]
        ELSE [g |-> [g EXCEPT !.m_localVarMap = (name :> NullOperand) @@ @],
              instructions |-> instructions, operand |-> NullOperand]

generateIntConstant(g, e, instructions) ==
    [g |-> g, instructions |-> instructions, operand |-> intConst(e.value)]

generateUnaryOperation(g, e, instructions) ==
    LET a == allocateStack(g, DWord)
        destination == TempOperand(a.offset, DWord)
        r == generateExpression(a.g, e.expression, instructions)
        moved == Append(r.instructions, move(r.operand, destination))
    IN  [g |-> r.g,
         instructions |->
             CASE e.operatorToken.type = "MINUS" -> Append(moved, negate(destination))
               [] e.operatorToken.type = "TILDE" -> Append(moved, bitwiseNot(destination))
               [] OTHER -> moved,
         operand |-> destination]

generateArithmeticOperation(g, e, instructions) ==
    LET a == allocateStack(g, DWord)
        destination == TempOperand(a.offset, DWord)
        l == generateExpression(a.g, e.left, instructions)
        moved == Append(l.instructions, move(l.operand, destination))
    IN  IF e.operatorToken.type \in {"PLUS", "MINUS", "STAR"}
        THEN LET r == generateExpression(l.g, e.right, moved)
             IN  [g |-> r.g,
                  instructions |->
                      Append(r.instructions,
                             CASE e.operatorToken.type = "PLUS" -> add(destination, r.operand)
                               [] e.operatorToken.type = "MINUS" -> sub(destination, r.operand)
                               [] OTHER -> mul(destination, r.operand)),
                  operand |-> destination]
        ELSE [g |-> l.g, instructions |-> moved, operand |-> destination]

getComparisonType(tokType) ==
    CASE tokType = "EQUAL_EQUAL" -> "Equal"
      [] tokType = "BANG_EQUAL" -> "NotEqual"
      [] tokType = "GREATER" -> "Greater"
      [] tokType = "GREATER_EQUAL" -> "GreaterEqual"
      [] tokType = "LESS" -> "Less"
      [] OTHER -> "LessEqual"

generateRelational(g, e, instructions) ==
    LET a == allocateStack(g, DWord)
        destination == TempOperand(a.offset, Byte)
        comparison == getComparisonType(e.operatorToken.type)
        first == IF g.argumentOrder = "LeftToRight"
                 THEN generateExpression(a.g, e.left, instructions)
                 ELSE generateExpression(a.g, e.right, instructions)
        second == IF g.argumentOrder = "LeftToRight"
                  THEN generateExpression(first.g, e.right, first.instructions)
                  ELSE generateExpression(first.g, e.left, first.instructions)
        left == IF g.argumentOrder = "LeftToRight" THEN first.operand ELSE second.operand
        right == IF g.argumentOrder = "LeftToRight" THEN second.operand ELSE first.operand
    IN  [g |-> second.g,
         instructions |-> second.instructions \o <<cmp(left, right), set(destination, comparison)>>,
         operand |-> destination]

generateLogical(g, e, instructions) ==
    LET a == allocateStack(g, DWord)
        destination == TempOperand(a.offset, DWord)
        c == generateComparisonIndex(a.g)
        falseLabel == ".CF" \o ToString(c.index)
        trueLabel == ".CT" \o ToString(c.index)
        endLabel == ".CE" \o ToString(c.index)
        isAnd == e.operatorToken.type = "AND"
        decided == IF isAnd THEN 0 ELSE 1
        target == IF isAnd THEN falseLabel ELSE trueLabel
        l == generateExpression(c.g, e.left, instructions)
        afterLeft == l.instructions \o <<cmp(l.operand, intConst(decided)), jmp(target, "Equal")>>
        r == generateExpression(l.g, e.right, afterLeft)
    IN  [g |-> r.g,
         instructions |->
             r.instructions
                 \o <<cmp(r.operand, intConst(decided)), jmp(target, "Equal"),
                      move(intConst(1 - decided), destination), jmp(endLabel, "None"),
                      label(target), move(intConst(decided), destination),
                      label(endLabel)>>,
         operand |-> destination]

idiv(g, e, instructions) ==
    LET r == generateExpression(g, e.right, instructions)
        a == allocateStack(r.g, DWord)
        temp == TempOperand(a.offset, DWord)
        l == generateExpression(a.g, e.left, Append(r.instructions, move(r.operand, temp)))
    IN  [g |-> l.g,
         instructions |->
             l.instructions \o <<move(l.operand, reg("AX", DWord)), CdqInstruction,
                                 DivInstruction(temp)>>,
         operand |-> reg("AX", DWord)]

\* an operator outside the switch leaves the function without a return value
generateBinaryOperation(g, e, instructions) ==
    CASE e.operatorToken.type \in {"PLUS", "MINUS", "STAR"} ->
            generateArithmeticOperation(g, e, instructions)
      [] e.operatorToken.type = "SLASH" -> idiv(g, e, instructions)
      [] e.operatorToken.type \in {"LESS", "LESS_EQUAL", "GREATER", "GREATER_EQUAL",
                                   "EQUAL_EQUAL", "BANG_EQUAL"} ->
            generateRelational(g, e, instructions)
      [] e.operatorToken.type \in {"OR", "AND"} -> generateLogical(g, e, instructions)
      [] OTHER -> [g |-> undefinedBehaviour(g), instructions |-> instructions,
                   operand |-> NullOperand]

generateAssignment(g, e, instructions) ==
    LET temp == generateExpression(g, e.right, instructions)
        var == generateExpression(temp.g, e.left, temp.instructions)
    IN  [g |-> var.g,
         instructions |-> Append(var.instructions, move(temp.operand, var.operand)),
         operand |-> var.operand]

\* the name generateCall calls and, on Mac, writes back into the Call node
calleeName(platform, funcToken) ==
    IF platform = "Mac" THEN "_" \o funcToken.value ELSE funcToken.value

RECURSIVE generateRegisterArguments(_, _, _, _, _)
\* the loop that moves argumentList[i] into argumentRegisters[i], i < m
generateRegisterArguments(g, argumentList, instructions, i, m) ==
    IF i > m THEN [g |-> g, instructions |-> instructions]
    ELSE LET r == generateExpression(g, argumentList[i], instructions)
         IN  Sequenced(r, generateRegisterArguments(
                 r.g, argumentList,
                 Append(r.instructions,
                        move(r.operand, reg(argumentRegisters(g.m_platform)[i], DWord))),
                 i + 1, m))

RECURSIVE generateStackArguments(_, _, _, _, _)
\* the loop that pushes argumentList[i] from the last argument down to the
\* first one that has no register
generateStackArguments(g, argumentList, instructions, i, firstOnStack) ==
    IF i < firstOnStack THEN [g |-> g, instructions |-> instructions]
    ELSE LET r == generateExpression(g, argumentList[i], instructions)
         IN  Sequenced(r, generateStackArguments(r.g, argumentList,
                                    Append(r.instructions, push(r.operand)),
                                    i - 1, firstOnStack))

\* a call site that gives back the padding alone
generateCallPaddingOnly(g, e, instructions) ==
    LET registers == argumentRegisters(g.m_platform)
        count == Len(e.argumentList)
        stackPadding == (IF g.m_platform = "Win" THEN 32 ELSE 0)
                            + (IF count % 2 = 0 THEN 8 ELSE 0)
        addToStack == count > Len(registers)
        m == IF addToStack THEN Len(registers) ELSE count
        stackArgs == IF addToStack THEN count - Len(registers) ELSE 0
        start == Append(instructions, sub(reg("SP", QWord), intConst(stackPadding)))
        inRegisters == generateRegisterArguments(g, e.argumentList, start, 1, m)
        onStack == IF addToStack
                   THEN generateStackArguments(inRegisters.g, e.argumentList,
                                               inRegisters.instructions, count, m + 1)
                   ELSE inRegisters
    IN  Sequenced(inRegisters,
            [g |-> onStack.g,
             instructions |->
                 onStack.instructions
                     \o <<call(calleeName(g.m_platform, e.funcToken)),
                          add(reg("SP", QWord), intConst(stackPadding))>>,
             operand |-> reg("AX", DWord)])

generateCall(g, e, instructions) ==
    LET registers == argumentRegisters(g.m_platform)
        count == Len(e.argumentList)
        stackPadding == (IF g.m_platform = "Win" THEN 32 ELSE 0)
                            + (IF count % 2 = 0 THEN 8 ELSE 0)
        addToStack == count > Len(registers)
        m == IF addToStack THEN Len(registers) ELSE count
        stackArgs == IF addToStack THEN count - Len(registers) ELSE 0
        start == Append(instructions, sub(reg("SP", QWord), intConst(stackPadding)))
        inRegisters == generateRegisterArguments(g, e.argumentList, start, 1, m)
        onStack == IF addToStack
                   THEN generateStackArguments(inRegisters.g, e.argumentList,
                                               inRegisters.instructions, count, m + 1)
                   ELSE inRegisters
    IN  Sequenced(inRegisters,
            [g |-> onStack.g,
             instructions |->
                 onStack.instructions
                     \o <<call(calleeName(g.m_platform, e.funcToken)),
                          add(reg("SP", QWord), intConst(8 * stackArgs + stackPadding))>>,
             operand |-> reg("AX", DWord)])

generateVariableDefinition(g, s, instructions) ==
    LET varSize == getTypeSize(s.variableType)
        a == allocateStack(afterGetTypeSize(g, s.variableType), varSize)
        varPtr == TempOperand(a.offset, varSize)
        g1 == [a.g EXCEPT !.m_localVarMap = (s.nameToken.value :> varPtr) @@ @]
    IN  IF s.initializer # NullNode
        THEN LET r == generateExpression(g1, s.initializer, instructions)
             IN  [g |-> r.g, instructions |-> Append(r.instructions, move(r.operand, varPtr))]
        ELSE [g |-> g1, instructions |-> instructions]

generateExpressionStatement(g, s, instructions) ==
    LET r == generateExpression(g, s.expression, instructions)
    IN  [g |-> r.g, instructions |-> r.instructions]

RECURSIVE generateStatements(_, _, _, _)
\* a loop `for (statement : statements) generateStatement(statement, instructions)`
generateStatements(g, statements, instructions, i) ==
    IF i > Len(statements) THEN [g |-> g, instructions |-> instructions]
    ELSE LET r == generateStatement(g, statements[i], instructions)
         IN  Sequenced(r, generateStatements(r.g, statements, r.instructions, i + 1))

generateCompoundStatement(g, s, instructions) ==
    generateStatements(g, s.statements, instructions, 1)

generateReturnStatement(g, s, instructions) ==
    LET r == generateExpression(g, s.expression, instructions)
    IN  [g |-> r.g,
         instructions |-> r.instructions \o <<move(r.operand, reg("AX", DWord)),
                                              ReturnInstruction>>]

generateIfStatement(g, s, instructions) ==
    LET n == generateIfIndex(g)
        endLabel == ".IE" \o ToString(n.index)
        falseLabel == IF s.elseBody = NullNode THEN endLabel ELSE ".IF" \o ToString(n.index)
        temp == generateExpression(n.g, s.condition, instructions)
        then == generateStatement(
                    temp.g, s.ifBody,
                    temp.instructions \o <<cmp(temp.operand, intConst(0)),
                                           jmp(falseLabel, "Equal")>>)
    IN  IF s.elseBody # NullNode
        THEN LET else == generateStatement(
                             then.g, s.elseBody,
                             then.instructions \o <<jmp(endLabel, "None"), label(falseLabel)>>)
             IN  [g |-> else.g, instructions |-> Append(else.instructions, label(endLabel))]
        ELSE [g |-> then.g, instructions |-> Append(then.instructions, label(endLabel))]

\* a loop that stays on m_loopStack after its lowering
generateLoopStatementNoPop(g, s, instructions) ==
    LET n == generateIfIndex(g)
        startLabel == ".LS" \o ToString(n.index)
        exitLabel == ".LE" \o ToString(n.index)
        g1 == [n.g EXCEPT !.m_loopStack = Append(@, LoopInfo(startLabel, exitLabel))]
        body == generateStatement(g1, s.loopBody, Append(instructions, label(startLabel)))
    IN  [g |-> body.g,
         instructions |-> body.instructions \o <<jmp(startLabel, "None"), label(exitLabel)>>]

generateLoopStatement(g, s, instructions) ==
    LET n == generateIfIndex(g)
        startLabel == ".LS" \o ToString(n.index)
        exitLabel == ".LE" \o ToString(n.index)
        g1 == [n.g EXCEPT !.m_loopStack = Append(@, LoopInfo(startLabel, exitLabel))]
        body == generateStatement(g1, s.loopBody, Append(instructions, label(startLabel)))
    IN  [g |-> [body.g EXCEPT !.m_loopStack = SubSeq(@, 1, Len(@) - 1)],
         instructions |-> body.instructions \o <<jmp(startLabel, "None"), label(exitLabel)>>]

generateWhileStatement(g, s, instructions) ==
    LET n == generateIfIndex(g)
        startLabel == ".LS" \o ToString(n.index)
        exitLabel == ".LE" \o ToString(n.index)
        g1 == [n.g EXCEPT !.m_loopStack = Append(@, LoopInfo(startLabel, exitLabel))]
        temp == generateExpression(g1, s.condition, Append(instructions, label(startLabel)))
        body == generateStatement(
                    temp.g, s.loopBody,
                    temp.instructions \o <<cmp(temp.operand, intConst(0)),
                                           jmp(exitLabel, "Equal")>>)
    IN  [g |-> [body.g EXCEPT !.m_loopStack = SubSeq(@, 1, Len(@) - 1)],
         instructions |-> body.instructions \o <<jmp(startLabel, "None"), label(exitLabel)>>]

generateBreakStatement(g, s, instructions) ==
    IF Len(g.m_loopStack) = 0
    THEN [g |-> undefinedBehaviour(g), instructions |-> instructions]
    ELSE [g |-> g,
          instructions |->
              Append(instructions, jmp(g.m_loopStack[Len(g.m_loopStack)].exitLabel, "None"))]

generateContinueStatement(g, s, instructions) ==
    IF Len(g.m_loopStack) = 0
    THEN [g |-> undefinedBehaviour(g), instructions |-> instructions]
    ELSE [g |-> g,
          instructions |->
              Append(instructions, jmp(g.m_loopStack[Len(g.m_loopStack)].startLabel, "None"))]

RECURSIVE generateRegisterParameters(_, _, _, _, _)
\* the loop that stores the parameters that arrive in registers, i < m
generateRegisterParameters(g, parameterList, instructions, i, m) ==
    IF i > m THEN [g |-> g, instructions |-> instructions]
    ELSE LET paramSize == getTypeSize(parameterList[i].type)
             a == allocateStack(afterGetTypeSize(g, parameterList[i].type), paramSize)
             stackParam == TempOperand(a.offset, paramSize)
         IN  generateRegisterParameters(
                 [a.g EXCEPT !.m_localVarMap =
                                 (parameterList[i].nameToken.value :> stackParam) @@ @],
                 parameterList,
                 Append(instructions,
                        move(reg(argumentRegisters(g.m_platform)[i], paramSize), stackParam)),
                 i + 1, m)

RECURSIVE generateStackParametersBelow(_, _, _, _)
\* a binding of the stack parameters one word lower
generateStackParametersBelow(g, parameterList, i, registerCount) ==
    IF i < registerCount THEN g
    ELSE generateStackParametersBelow(
             [afterGetTypeSize(g, parameterList[i + 1].type) EXCEPT
                 !.m_localVarMap =
                     (parameterList[i + 1].nameToken.value
                         :> TempOperand(-((i - registerCount + 1) * 8),
                                        getTypeSize(parameterList[i + 1].type))) @@ @],
             parameterList, i - 1, registerCount)

RECURSIVE generateStackParameters(_, _, _, _)
\* the loop that binds the parameters that arrive on the stack, from the last
\* one down; i and registerCount count as in the code (i from 0)
generateStackParameters(g, parameterList, i, registerCount) ==
    IF i < registerCount THEN g
    ELSE generateStackParameters(
             [afterGetTypeSize(g, parameterList[i + 1].type) EXCEPT
                 !.m_localVarMap =
                     (parameterList[i + 1].nameToken.value
                         :> TempOperand(-((i - registerCount + 2) * 8),
                                        getTypeSize(parameterList[i + 1].type))) @@ @],
             parameterList, i - 1, registerCount)

generateFunctionDefinition(g, d, instructions) ==
    LET g0 == [g EXCEPT !.m_currentStackIndex = 0]
        registers == argumentRegisters(g.m_platform)
        count == Len(d.parameterList)
        addToStack == count > Len(registers)
        m == IF addToStack THEN Len(registers) ELSE count
        inRegisters == generateRegisterParameters(g0, d.parameterList, <<>>, 1, m)
        g1 == IF addToStack
              THEN generateStackParameters(inRegisters.g, d.parameterList, count - 1,
                                           Len(registers))
              ELSE inRegisters.g
        body == generateStatement(g1, d.functionBody, inRegisters.instructions)
        mainFunc == FunctionDefInstruction(
                        d.nameToken.value,
                        body.instructions \o <<move(intConst(0), reg("AX", DWord)),
                                               ReturnInstruction>>,
                        body.g.m_currentStackIndex)
    IN  [g |-> body.g, instructions |-> Append(instructions, mainFunc)]

\* a definition decorated `external` (the parser of this revision builds none)
DecoratedDefinition(decorator, definition) ==
    [nodeType |-> "DecoratedDefinition", decorator |-> decorator, definition |-> definition]

\* handed a FunctionDefinition, the cast reads a decorator the node does not have
\* every decorator registers the name
generateDecoratedDefinitionAny(g, d, instructions) ==
    IF d.nodeType = "DecoratedDefinition"
    THEN IF d.decorator \in {"External", "Internal"}
         THEN [g |-> [g EXCEPT !.m_externals = Append(@, d.definition.nameToken.value)],
               instructions |-> instructions]
         ELSE [g |-> g, instructions |-> instructions]
    ELSE IF g.decoratorRead = "External"
         THEN [g |-> undefinedBehaviour(g), instructions |-> instructions]
         ELSE [g |-> g, instructions |-> instructions]

generateDecoratedDefinition(g, d, instructions) ==
    IF d.nodeType = "DecoratedDefinition"
    THEN IF d.decorator = "External"
         THEN [g |-> [g EXCEPT !.m_externals = Append(@, d.definition.nameToken.value)],
               instructions |-> instructions]
         ELSE [g |-> g, instructions |-> instructions]
    ELSE IF g.decoratorRead = "External"
         THEN [g |-> undefinedBehaviour(g), instructions |-> instructions]
         ELSE [g |-> g, instructions |-> instructions]

RECURSIVE generateDefinitions(_, _, _, _)
\* the loop over program.definitions
generateDefinitions(g, definitions, instructions, i) ==
    IF i > Len(definitions) THEN [g |-> g, instructions |-> instructions]
    ELSE LET r == generateDefinition(g, definitions[i], instructions)
         IN  Sequenced(r, generateDefinitions(r.g, definitions, r.instructions, i + 1))

\* generateExpression: a node type outside the switch returns a null operand.
\* generateStatement: a node type outside the switch is skipped.
\* generateDefinition: the FunctionDefinition case has no break and falls
\* into the next case.
generateNode(method, g, n, instructions) ==
  Sequenced(<<g, instructions>>,
    CASE method = "generateExpression" ->
        (CASE n.nodeType = "nullptr" ->
                 [g |-> undefinedBehaviour(g), instructions |-> instructions,
                  operand |-> NullOperand]
           [] n.nodeType = "IntegerLiteral" -> generateIntConstant(g, n, instructions)
           [] n.nodeType = "UnaryOperation" -> generateUnaryOperation(g, n, instructions)
           [] n.nodeType = "BinaryOperation" -> generateBinaryOperation(g, n, instructions)
           [] n.nodeType = "Assignment" -> generateAssignment(g, n, instructions)
           [] n.nodeType = "Identifier" -> getIdentifier(g, n, instructions)
           [] n.nodeType = "Call" -> generateCall(g, n, instructions)
           [] OTHER -> [g |-> g, instructions |-> instructions, operand |-> NullOperand])
      [] method = "generateStatement" ->
        (CASE n.nodeType = "nullptr" -> [g |-> undefinedBehaviour(g), instructions |-> instructions]
           [] n.nodeType = "ReturnStatement" -> generateReturnStatement(g, n, instructions)
           [] n.nodeType = "CompoundStatement" -> generateCompoundStatement(g, n, instructions)
           [] n.nodeType = "VariableDefinition" -> generateVariableDefinition(g, n, instructions)
           [] n.nodeType = "ExpressionStatement" -> generateExpressionStatement(g, n, instructions)
           [] n.nodeType = "IfStatement" -> generateIfStatement(g, n, instructions)
           [] n.nodeType = "LoopStatement" -> generateLoopStatement(g, n, instructions)
           [] n.nodeType = "WhileStatement" -> generateWhileStatement(g, n, instructions)
           [] n.nodeType = "BreakStatement" -> generateBreakStatement(g, n, instructions)
           [] n.nodeType = "ContinueStatement" -> generateContinueStatement(g, n, instructions)
           [] OTHER -> [g |-> g, instructions |-> instructions])
      [] method = "generateDefinition" ->
        (CASE n.nodeType = "nullptr" -> [g |-> undefinedBehaviour(g), instructions |-> instructions]
           [] n.nodeType = "FunctionDefinition" ->
                 LET r == generateFunctionDefinition(g, n, instructions)
                 IN  Sequenced(r, generateDecoratedDefinition(r.g, n, r.instructions))
           [] n.nodeType = "DecoratedDefinition" -> generateDecoratedDefinition(g, n, instructions)
           [] OTHER -> [g |-> g, instructions |-> instructions])
      [] method = "generate" ->
        LET definitions == generateDefinitions(g, n.definitions, instructions, 1)
            statements == generateStatements(definitions.g, n.statements, <<>>, 1)
            mainFunc == FunctionDefInstruction("main", statements.instructions, 0)
            lowered == definitions.instructions
            g1 == IF validateDerefsNull(lowered) THEN undefinedBehaviour(statements.g)
                  ELSE statements.g
        IN  Sequenced(definitions,
              Sequenced(statements,
                [g |-> [g1 EXCEPT !.m_instructions =
                                      validateInstructions(validateInstructions(lowered))],
                 mainFunc |-> mainFunc])))

RECURSIVE afterGenerateCall(_, _)
\* the tree as lowering leaves it: generateCall writes the callee's name into
\* every Call node it lowers
afterGenerateCall(platform, n) ==
    CASE n.nodeType = "Call" ->
            [n EXCEPT !.funcToken.value = calleeName(platform, n.funcToken),
                      !.argumentList = [i \in 1..Len(@) |-> afterGenerateCall(platform, @[i])]]
      [] n.nodeType = "UnaryOperation" ->
            [n EXCEPT !.expression = afterGenerateCall(platform, @)]
      [] n.nodeType = "Assignment"
           \/ (n.nodeType = "BinaryOperation"
                 /\ n.operatorToken.type \in
                        {"PLUS", "MINUS", "STAR", "SLASH", "LESS", "LESS_EQUAL", "GREATER",
                         "GREATER_EQUAL", "EQUAL_EQUAL", "BANG_EQUAL", "OR", "AND"}) ->
            [n EXCEPT !.left = afterGenerateCall(platform, @),
                      !.right = afterGenerateCall(platform, @)]
      [] n.nodeType \in {"ExpressionStatement", "ReturnStatement"} ->
            [n EXCEPT !.expression = afterGenerateCall(platform, @)]
      [] n.nodeType = "VariableDefinition" /\ ~n.isGlobal ->
            [n EXCEPT !.initializer = afterGenerateCall(platform, @)]
      [] n.nodeType = "CompoundStatement" ->
            [n EXCEPT !.statements = [i \in 1..Len(@) |-> afterGenerateCall(platform, @[i])]]
      [] n.nodeType = "IfStatement" ->
            [n EXCEPT !.condition = afterGenerateCall(platform, @),
                      !.ifBody = afterGenerateCall(platform, @),
                      !.elseBody = afterGenerateCall(platform, @)]
      [] n.nodeType = "LoopStatement" ->
            [n EXCEPT !.loopBody = afterGenerateCall(platform, @)]
      [] n.nodeType = "WhileStatement" ->
            [n EXCEPT !.condition = afterGenerateCall(platform, @),
                      !.loopBody = afterGenerateCall(platform, @)]
      [] n.nodeType = "FunctionDefinition" ->
            [n EXCEPT !.functionBody = afterGenerateCall(platform, @)]
      [] OTHER -> n

(***************************************************************************)
(* CodeEmission/IntelCodeEmission.cpp: the emitter.  Its fields are the    *)
(* arguments of the last emit and m_output, the text written so far; every *)
(* method returns the emitter as it leaves it.                             *)
(***************************************************************************)
NewEmitter ==
    [m_instructions |-> <<>>, m_externals |-> <<>>, m_platform |-> "Win", m_output |-> ""]

write(em, text) == [em EXCEPT !.m_output = @ \o text]

writeLine(em, line) == write(em, line \o "\n")

writeILine(em, line) == writeLine(em, "    " \o line)

emitterLabel(em, name) == writeLine(em, name \o ":")

getSizeMemory(size) ==
    CASE size = Byte -> "BYTE"
      [] size = 2 -> "WORD"
      [] size = DWord -> "DWORD"
      [] OTHER -> "QWORD"

\* the registers whose enumerator is below 8
LowRegisters == {"AX", "BX", "CX", "DX", "DI", "SI", "BP", "SP"}

RegisterNames ==
    [AX |-> "ax", BX |-> "bx", CX |-> "cx", DX |-> "dx", DI |-> "di", SI |-> "si",
     BP |-> "bp", SP |-> "sp", R8 |-> "r8", R9 |-> "r9", R10 |-> "r10", R11 |-> "r11"]

getRegister(operand) ==
    LET prefix == IF operand.reg \in LowRegisters
                  THEN CASE operand.size = QWord -> "r"
                         [] operand.size = DWord -> "e"
                         [] OTHER -> ""
                  ELSE ""
        suffix == IF operand.reg \notin LowRegisters /\ operand.size = DWord THEN "d" ELSE ""
    IN  prefix \o RegisterNames[operand.reg] \o suffix

abs(n) == IF n < 0 THEN -n ELSE n

getTemp(operand) ==
    LET sign == IF operand.stackOffest < 0 THEN "+" ELSE "-"
    IN  getSizeMemory(operand.size) \o " [rbp " \o sign \o " "
            \o ToString(abs(operand.stackOffest)) \o "]"

getOperandStr(operand) ==
    CASE operand.type = "IntegerConstant" -> ToString(operand.integer)
      [] operand.type = "Register" -> getRegister(operand)
      [] operand.type = "Temp" -> getTemp(operand)
      [] OTHER -> ""

emitterComparisonType(type) ==
    CASE type = "Equal" -> "e"
      [] type = "NotEqual" -> "ne"
      [] type = "Greater" -> "g"
      [] type = "GreaterEqual" -> "ge"
      [] type = "Less" -> "l"
      [] type = "LessEqual" -> "le"
      [] type = "None" -> "mp"
      [] OTHER -> ""

emitFunctionPrologue(em, stackAlloc) ==
    writeILine(writeILine(writeILine(em, "push rbp"), "mov rbp, rsp"),
               "sub rsp, " \o ToString(stackAlloc))

emitFunctionEpilogue(em) == writeILine(writeILine(em, "mov rsp, rbp"), "pop rbp")

RECURSIVE emitInstructions(_, _, _)
emitInstruction(em, n) ==
    CASE n.type = "FunctionDefinition" ->
            LET name == IF em.m_platform = "Mac" THEN "_" \o n.name ELSE n.name
                opened == emitterLabel(writeLine(em, "global " \o name), name)
            IN  emitInstructions(emitFunctionPrologue(opened, n.stackAlloc), n.instructions, 1)
      [] n.type = "Move" ->
            writeILine(em, (IF n.signExtend THEN "movsx " ELSE "mov ")
                               \o getOperandStr(n.destination) \o ", "
                               \o getOperandStr(n.source))
      [] n.type = "Negate" -> writeILine(em, "neg " \o getOperandStr(n.source))
      [] n.type = "BitwiseNot" -> writeILine(em, "not " \o getOperandStr(n.source))
      [] n.type = "Add" ->
            writeILine(em, "add " \o getOperandStr(n.destination) \o ", "
                               \o getOperandStr(n.other))
      [] n.type = "Subtract" ->
            writeILine(em, "sub " \o getOperandStr(n.destination) \o ", "
                               \o getOperandStr(n.other))
      [] n.type = "Multiply" ->
            writeILine(em, "imul " \o getOperandStr(n.destination) \o ", "
                               \o getOperandStr(n.other))
      [] n.type = "Cdq" -> writeILine(em, "cdq")
      [] n.type = "Divide" -> writeILine(em, "idiv " \o getOperandStr(n.destination))
      [] n.type = "Compare" ->
            writeILine(em, "cmp " \o getOperandStr(n.left) \o ", " \o getOperandStr(n.right))
      [] n.type = "Set" ->
            writeILine(em, "set" \o emitterComparisonType(n.comparison) \o " "
                               \o getOperandStr(n.destination))
      [] n.type = "Jump" ->
            writeILine(em, "j" \o emitterComparisonType(n.comparison) \o " " \o n.label)
      [] n.type = "Label" -> writeLine(em, n.name \o ":")
      [] n.type = "Call" -> writeILine(em, "call " \o n.func)
      [] n.type = "Return" -> writeILine(emitFunctionEpilogue(em), "ret")
      [] n.type = "Push" -> writeILine(em, "push " \o getOperandStr(n.src))
      [] OTHER -> em

\* a loop `for (instruction : list) emitInstruction(instruction)`
emitInstructions(em, instructions, i) ==
    IF i > Len(instructions) THEN em
    ELSE Sequenced(em, emitInstructions(emitInstruction(em, instructions[i]), instructions, i + 1))

RECURSIVE externLine(_, _)
\* "extern " followed by every name and ", "
externLine(externals, i) ==
    IF i > Len(externals) THEN ""
    ELSE externals[i] \o ", " \o externLine(externals, i + 1)

\* emit returns a reference to m_output
emit(em, instructions, externals, platform) ==
    LET em0 == [em EXCEPT !.m_platform = platform, !.m_instructions = instructions,
                          !.m_externals = externals]
        header == writeLine(writeLine(em0, "extern " \o externLine(externals, 1)),
                            "section .text")
    IN  emitInstructions(header, instructions, 1)

output(em) == em.m_output

(***************************************************************************)
(* Sequence/Sequence.cpp: buildProject.  The build is the driver's         *)
(* position (pc), its platform, the ErrorHandler's errors, what each stage *)
(* left (the token list, the program, the instruction list and externals), *)
(* what each stage's call returned (stages), the assembly file and the     *)
(* value buildProject returned.  The build's choices are those of          *)
(* NewCodeGenerator.                                                       *)
(***************************************************************************)
NotRun == "not run"

NoFile == [written |-> FALSE, content |-> ""]

NewBuild(argumentOrder, decoratorRead) ==
    [pc |-> "config", platform |-> "Win", errors |-> <<>>, tokens |-> <<>>,
     program |-> ProgramFile(<<>>, <<>>), instructions |-> <<>>, externals |-> <<>>,
     stages |-> [lex |-> NotRun, parse |-> NotRun, analyze |-> NotRun,
                 generate |-> NotRun, emit |-> NotRun],
     asmFile |-> NoFile, returned |-> "running", undefined |-> FALSE,
     argumentOrder |-> argumentOrder, decoratorRead |-> decoratorRead]

\* `return value;`
buildReturn(b, value) ==
    [b EXCEPT !.pc = "returned", !.returned = IF value THEN "true" ELSE "false"]

\* what a call that returns bool returned
returnedBy(result) == IF result THEN "success" ELSE "failure"

\* the configuration is read and the platform chosen
buildConfig(b, configExists, architecture) ==
    IF ~configExists THEN buildReturn(b, FALSE)
    ELSE CASE architecture = "x86_64-intel-win" -> [b EXCEPT !.platform = "Win", !.pc = "lex"]
           [] architecture = "x86_64-intel-mac" -> [b EXCEPT !.platform = "Mac", !.pc = "lex"]
           [] OTHER -> buildReturn(b, FALSE)

\* the fields of a Token the parser reads
tokenList(tokens) == [i \in 1..Len(tokens) |-> Token(tokens[i].type, tokens[i].value)]

\* the build after lexer.analyze has returned r
lexed(b, r) ==
    IF r.result
    THEN [b EXCEPT !.stages.lex = "success", !.errors = r.lx.errors,
                   !.tokens = r.lx.m_tokens, !.undefined = r.lx.undefined, !.pc = "parse"]
    ELSE buildReturn([b EXCEPT !.stages.lex = "failure", !.errors = r.lx.errors,
                               !.tokens = r.lx.m_tokens, !.undefined = r.lx.undefined],
                     FALSE)

\* `if (!lexer.analyze(path)) { ...; return false; }`
buildLex(b, exists, content) == lexed(b, lexerAnalyze(NewLexer, exists, content))

\* a build that goes on to the analysis whatever parse returned r
parsedUnchecked(b, r) ==
    [b EXCEPT !.stages.parse = returnedBy(r.result), !.errors = r.p.errors,
              !.program = r.programFile, !.pc = "analyze"]

\* the build after parser.parse has returned r
parsed(b, r) ==
    IF r.result
    THEN [b EXCEPT !.stages.parse = "success", !.errors = r.p.errors,
                   !.program = r.programFile, !.pc = "analyze"]
    ELSE buildReturn([b EXCEPT !.stages.parse = "failure", !.errors = r.p.errors,
                               !.program = r.programFile], FALSE)

\* `if (!parser.parse(lexer.getTokenList())) { ...; return false; }`; with an
\* empty token list m_currentToken stays null and parse reads through it
buildParse(b) ==
    IF b.tokens = <<>> THEN [b EXCEPT !.undefined = TRUE]
    ELSE parsed(b, parse(tokenList(b.tokens), ProgramFile(<<>>, <<>>), b.errors))

\* the build after semanticAnalyzer.analyze has returned r
analyzed(b, r) ==
    IF r.result
    THEN [b EXCEPT !.stages.analyze = "success", !.errors = r.a.errors,
                   !.program = r.program, !.undefined = r.a.undefined, !.pc = "generate"]
    ELSE buildReturn([b EXCEPT !.stages.analyze = "failure", !.errors = r.a.errors,
                               !.program = r.program, !.undefined = r.a.undefined],
                     FALSE)

\* `if (!semanticAnalyzer.analyze(&parser.program())) { ...; return false; }`
buildAnalyze(b) == analyzed(b, analyze([NewAnalyzer EXCEPT !.errors = b.errors], b.program))

\* the build after codeGenerator.generate has run and left g
generated(b, g) ==
    [b EXCEPT !.stages.generate = "run", !.instructions = g.m_instructions,
              !.externals = g.m_externals, !.undefined = g.undefined, !.pc = "emit"]

\* `codeGenerator.generate(parser.program(), platform)`
buildGenerate(b) ==
    generated(b, generate(NewCodeGenerator(b.argumentOrder, b.decoratorRead), b.program,
                          b.platform).g)

\* emit, the write of the .asm file, the assembler and linker, `return true`
buildEmit(b) ==
    LET em == emit(NewEmitter, b.instructions, b.externals, b.platform)
    IN  buildReturn([b EXCEPT !.stages.emit = "run",
                              !.asmFile = [written |-> TRUE, content |-> output(em)]],
                    TRUE)

(***************************************************************************)
(* The execution of an instruction list of Instructions.h, as the x86-64   *)
(* instructions IntelCodeEmission writes for it behave: a machine is the   *)
(* index of the next instruction (pc), the values of the registers and of  *)
(* the stack slots Temp operands name, the operands of the last Compare,   *)
(* the indexes of the instructions executed and whether a Call has pushed  *)
(* its return address and the callee has not returned yet.  SP starts at   *)
(* StackTop, a multiple of 16.                                             *)
(***************************************************************************)
MaxSlots == 4

StackTop == 16 * 16

Registers == {"AX", "BX", "CX", "DX", "DI", "SI", "BP", "SP", "R8", "R9", "R10", "R11"}

MaxStackWords == 24

\* the addresses of the 8-byte words below StackTop
StackAddresses == {StackTop - QWord * k : k \in 1..MaxStackWords}

\* what a Call pushes
ReturnAddress == 1000

SlotOffsets == {DWord * k : k \in 1..MaxSlots}

NewMachine(garbage) ==
    [pc |-> 1, registers |-> [r \in Registers |-> IF r = "SP" THEN StackTop ELSE garbage],
     temps |-> [offset \in SlotOffsets |-> garbage],
     stack |-> [address \in StackAddresses |-> garbage],
     flags |-> [left |-> 0, right |-> 0], executed |-> {}, calling |-> FALSE,
     halted |-> FALSE]

operandValue(m, operand) ==
    CASE operand.type = "IntegerConstant" -> operand.integer
      [] operand.type = "Register" -> m.registers[operand.reg]
      [] OTHER -> m.temps[operand.stackOffest]

store(m, operand, value) ==
    IF operand.type = "Register"
    THEN [m EXCEPT !.registers[operand.reg] = value]
    ELSE [m EXCEPT !.temps[operand.stackOffest] = value]

\* `push`: SP goes down 8 bytes and the word is stored there
pushWord(m, value) ==
    [m EXCEPT !.registers["SP"] = @ - QWord, !.stack[m.registers["SP"] - QWord] = value]

\* whether the condition of a Jump or Set holds after `cmp left, right`
conditionHolds(comparison, flags) ==
    CASE comparison = "Equal" -> flags.left = flags.right
      [] comparison = "NotEqual" -> flags.left # flags.right
      [] comparison = "Greater" -> flags.left > flags.right
      [] comparison = "GreaterEqual" -> flags.left >= flags.right
      [] comparison = "Less" -> flags.left < flags.right
      [] comparison = "LessEqual" -> flags.left <= flags.right
      [] OTHER -> TRUE

\* the index of the Label instruction of a name
labelIndex(instructions, name) ==
    CHOOSE i \in 1..Len(instructions) :
        instructions[i].type = "Label" /\ instructions[i].name = name

\* the machine after the instruction at pc
execute(m, instructions) ==
    LET n == instructions[m.pc]
        next == [m EXCEPT !.pc = @ + 1, !.executed = @ \cup {m.pc}]
    IN  CASE n.type = "Move" -> store(next, n.destination, operandValue(m, n.source))
          [] n.type = "Negate" -> store(next, n.source, -operandValue(m, n.source))
          [] n.type = "BitwiseNot" -> store(next, n.source, -operandValue(m, n.source) - 1)
          [] n.type = "Add" ->
                store(next, n.destination,
                      operandValue(m, n.destination) + operandValue(m, n.other))
          [] n.type = "Subtract" ->
                store(next, n.destination,
                      operandValue(m, n.destination) - operandValue(m, n.other))
          [] n.type = "Multiply" ->
                store(next, n.destination,
                      operandValue(m, n.destination) * operandValue(m, n.other))
          [] n.type = "Compare" ->
                [next EXCEPT !.flags = [left |-> operandValue(m, n.left),
                                        right |-> operandValue(m, n.right)]]
          [] n.type = "Set" ->
                store(next, n.destination,
                      IF conditionHolds(n.comparison, m.flags) THEN 1 ELSE 0)
          [] n.type = "Jump" ->
                IF conditionHolds(n.comparison, m.flags)
                THEN [next EXCEPT !.pc = labelIndex(instructions, n.label)]
                ELSE next
          \* `cdq` fills DX with the sign of AX; `idiv` leaves the quotient,
          \* rounded towards zero, in AX and the remainder in DX, and traps on
          \* a zero divisor
          [] n.type = "Cdq" ->
                [next EXCEPT !.registers["DX"] = IF m.registers["AX"] < 0 THEN -1 ELSE 0]
          [] n.type = "Divide" ->
                LET dividend == m.registers["AX"]
                    divisor == operandValue(m, n.destination)
                    quotient == IF divisor = 0 THEN 0
                                ELSE IF (dividend < 0) = (divisor < 0)
                                     THEN abs(dividend) \div abs(divisor)
                                     ELSE -(abs(dividend) \div abs(divisor))
                IN  IF divisor = 0 THEN [next EXCEPT !.halted = TRUE]
                    ELSE [next EXCEPT !.registers["AX"] = quotient,
                                      !.registers["DX"] = dividend - quotient * divisor]
          [] n.type = "Push" -> pushWord(next, operandValue(m, n.src))
          \* the return address is pushed and control is in the callee
          [] n.type = "Call" -> [pushWord(next, ReturnAddress) EXCEPT !.calling = TRUE]
          [] n.type = "Return" -> [next EXCEPT !.halted = TRUE]
          [] OTHER -> next

\* the callee's `ret` pops the return address; AX holds the value returned
calleeReturns(m, value) ==
    [m EXCEPT !.registers["SP"] = @ + QWord, !.registers["AX"] = value, !.calling = FALSE]

(***************************************************************************)
(* The types sameType is applied to.                                       *)
(***************************************************************************)
MaxParams == 2

ProbeBasics == {"I32", "F32"}

ProbeLeafTypes ==
    {FundamentalType(b) : b \in ProbeBasics} \cup {UserDefinedType("A")}

ProbeTypes ==
    ProbeLeafTypes
    \cup {PointerType(t) : t \in ProbeLeafTypes}
    \cup {ArrayType(t) : t \in ProbeLeafTypes}
    \cup {FunctionType(r, ps) : r \in ProbeLeafTypes,
                                ps \in SeqsUpTo(ProbeLeafTypes, MaxParams)}

GeneratorIdle ==
    /\ gSource = ProgramFile(<<>>, <<>>)
    /\ gProgram = ProgramFile(<<>>, <<>>)
    /\ gPlatform = "Win"
    /\ codeGenerator = NewCodeGenerator("LeftToRight", "Other")
    /\ gPc = "off"

LegalizerIdle ==
    /\ lSource = <<>>
    /\ lInstructions = <<>>
    /\ lPrevious = <<>>
    /\ lPasses = 0
    /\ lPc = "off"

TypesIdle ==
    /\ tyA = NullTypePtr
    /\ tyB = NullTypePtr
    /\ tyPc = "off"
    /\ tyResult = FALSE

AnalyzerIdle ==
    /\ aSource = ProgramFile(<<>>, <<>>)
    /\ m_program = ProgramFile(<<>>, <<>>)
    /\ analyzer = NewAnalyzer
    /\ aPc = "off"
    /\ aResult = FALSE

ParserIdle ==
    /\ pTokens = <<>>
    /\ m_programFile = ProgramFile(<<>>, <<>>)
    /\ pErrors = <<>>
    /\ pPc = "off"
    /\ pResult = FALSE

LexerIdle ==
    /\ lxExists = FALSE
    /\ lxContent = <<>>
    /\ lexer = NewLexer
    /\ lxPc = "off"
    /\ lxResult = FALSE

EmitterIdle ==
    /\ emitter = NewEmitter
    /\ eInstructions = <<>>
    /\ eExternals = <<>>
    /\ ePlatform = "Win"
    /\ eResult = ""
    /\ eCalls = 0

BuildIdle ==
    /\ bConfigExists = FALSE
    /\ bArchitecture = ""
    /\ bFileExists = FALSE
    /\ bContent = <<>>
    /\ build = [NewBuild("LeftToRight", "Other") EXCEPT !.pc = "off"]

MachineIdle ==
    /\ mExpression = NullNode
    /\ mPlatform = "Win"
    /\ mInstructions = <<>>
    /\ machine = [NewMachine(0) EXCEPT !.halted = TRUE]

CompilationIdle ==
    /\ rSource = ProgramFile(<<>>, <<>>)
    /\ rObject = "fresh"
    /\ rAnalyzer = NewAnalyzer
    /\ rPrograms = <<>>
    /\ rPc = "off"

InitTypes ==
    /\ tyA \in ProbeTypes
    /\ tyB \in ProbeTypes
    /\ tyPc = "call"
    /\ tyResult = FALSE
    /\ ParserIdle
    /\ AnalyzerIdle
    /\ GeneratorIdle
    /\ LegalizerIdle
    /\ LexerIdle
    /\ EmitterIdle
    /\ BuildIdle
    /\ MachineIdle
    /\ CompilationIdle

\* one call sameType(tyA, tyB)
SameTypeCall ==
    /\ tyPc = "call"
    /\ tyResult' = sameType(tyA, tyB)
    /\ tyPc' = "returned"
    /\ UNCHANGED <<tyA, tyB>>
    /\ UNCHANGED <<parserVars, analyzerVars, generatorVars, legalizerVars, lexerVars, emitterVars, buildVars, machineVars, compilationVars>>

NextTypes == SameTypeCall

vars == <<typeVars, parserVars, analyzerVars, generatorVars, legalizerVars, lexerVars, emitterVars, buildVars, machineVars, compilationVars>>

SpecTypes == InitTypes /\ [][NextTypes]_vars

(***************************************************************************)
(* The token lists the parser is run on: expression statements             *)
(* `a op b op c ;` over every infix operator, with any operand missing;    *)
(* variable definitions `let x [: T] = literal ;` over every type; and a   *)
(* definitions region holding one function.                                *)
(***************************************************************************)
MaxInfix == 2

InfixTokens ==
    {Token("DOT", "."), Token("ARROW", "->"), Token("STAR", "*"), Token("SLASH", "/"),
     Token("PLUS", "+"), Token("MINUS", "-"), Token("GREATER", ">"), Token("LESS", "<"),
     Token("GREATER_EQUAL", ">="), Token("LESS_EQUAL", "<="),
     Token("EQUAL_EQUAL", "=="), Token("BANG_EQUAL", "!="),
     Token("AND", "and"), Token("OR", "or"), Token("EQUAL", "=")}

OperandNames == <<"a", "b", "c", "d", "e">>

EofToken == Token("SPECIAL_EOF", "")

SemicolonToken == Token("SEMICOLON", ";")

RECURSIVE Interleave(_, _, _)
\* operand 1, ops[1], operand 2, ..., from position i on; present[i] says
\* whether operand i is written
Interleave(ops, present, i) ==
    (IF present[i] THEN <<Token("IDENTIFIER", OperandNames[i])>> ELSE <<>>)
    \o (IF i > Len(ops) THEN <<>> ELSE <<ops[i]>> \o Interleave(ops, present, i + 1))

ExpressionStreams ==
    UNION {{Interleave(ops, present, 1) \o <<SemicolonToken, EofToken>> :
                ops \in [1..k -> InfixTokens], present \in [1..(k + 1) -> BOOLEAN]} :
           k \in 0..MaxInfix}

TypeKeywordTokens ==
    {Token("KEY_I8", "i8"), Token("KEY_I16", "i16"), Token("KEY_I32", "i32"),
     Token("KEY_I64", "i64"), Token("KEY_F32", "f32"), Token("KEY_F64", "f64"),
     Token("KEY_BOOL", "bool"), Token("KEY_NULL", "null")}

TypeStreams ==
    LET leaves == {<<t>> : t \in TypeKeywordTokens \cup {Token("IDENTIFIER", "T")}}
    IN  leaves
        \cup {<<Token("LEFT_PARENTHESIS", "(")>> \o l \o <<Token("RIGHT_PARENTHESIS", ")")>> :
                l \in leaves}
        \cup {<<Token("LEFT_BRACKET", "[")>> \o l \o <<Token("RIGHT_BRACKET", "]")>> :
                l \in leaves}

LiteralTokens == {Token("TYPE_INTEGER", "1"), Token("TYPE_FLOAT", "1.5")}

DefinitionStreams ==
    {<<Token("LET", "let"), Token("IDENTIFIER", "x")>> \o ty
        \o <<Token("EQUAL", "="), lit, SemicolonToken, EofToken>> :
        ty \in {<<>>} \cup {<<Token("COLON", ":")>> \o t : t \in TypeStreams},
        lit \in LiteralTokens}

RegionStreams ==
    {<<Token("LESS", "<"), Token("IDENTIFIER", "define"), Token("GREATER", ">"),
       Token("FUNCTION", "fn"), Token("IDENTIFIER", "f"),
       Token("LEFT_PARENTHESIS", "("), Token("IDENTIFIER", "a"), Token("COLON", ":")>>
        \o <<t>> \o
     <<Token("RIGHT_PARENTHESIS", ")"), Token("COLON", ":"), t,
       Token("LEFT_BRACE", "{"), Token("RETURN", "return"), Token("IDENTIFIER", "a"),
       SemicolonToken, Token("RIGHT_BRACE", "}"),
       Token("LESS", "<"), Token("BANG", "!"), Token("IDENTIFIER", "define"),
       Token("GREATER", ">"), EofToken>> : t \in TypeKeywordTokens}

TokenStreams == ExpressionStreams \cup DefinitionStreams \cup RegionStreams

InitParser ==
    /\ pTokens \in TokenStreams
    /\ m_programFile = ProgramFile(<<>>, <<>>)
    /\ pErrors = <<>>
    /\ pPc = "ready"
    /\ pResult = FALSE
    /\ TypesIdle
    /\ AnalyzerIdle
    /\ GeneratorIdle
    /\ LegalizerIdle
    /\ LexerIdle
    /\ EmitterIdle
    /\ BuildIdle
    /\ MachineIdle
    /\ CompilationIdle

\* one call parse(pTokens)
ParseCall ==
    /\ pPc = "ready"
    /\ LET r == parse(pTokens, m_programFile, pErrors)
       IN  /\ m_programFile' = r.programFile
           /\ pErrors' = r.p.errors
           /\ pResult' = r.result
    /\ pPc' = "parsed"
    /\ UNCHANGED pTokens
    /\ UNCHANGED <<typeVars, analyzerVars, generatorVars, legalizerVars, lexerVars, emitterVars, buildVars, machineVars, compilationVars>>

NextParser == ParseCall

SpecParser == InitParser /\ [][NextParser]_vars

(***************************************************************************)
(* The programs the analyzer is run on, as the parser builds them: an      *)
(* optional function `fn f(a: i32): i32 { ... }` in the definitions and a  *)
(* list of top-level statements, the statements drawn from a pool that     *)
(* holds definitions with and without a declared type, references,         *)
(* redefinitions in the same and in a nested scope, a member access, array *)
(* literals, a loop and a return.                                          *)
(***************************************************************************)
MaxStatements == 2

NameToken(name) == Token("IDENTIFIER", name)

NoneType == FundamentalType("None")

LocalDefinition(name, type, initializer) ==
    VariableDefinition(NameToken(name), type, initializer, FALSE, FALSE)

StatementPool ==
    {LocalDefinition("x", NoneType, IntegerLiteral(1)),
     LocalDefinition("x", FundamentalType("I32"), IntegerLiteral(1)),
     LocalDefinition("y", FundamentalType("I32"), Identifier(NameToken("x"))),
     LocalDefinition("y", NoneType, Identifier(NameToken("x"))),
     LocalDefinition("x", NoneType, Identifier(NameToken("x"))),
     LocalDefinition("a", NoneType, IntegerLiteral(1)),
     LocalDefinition("e", NoneType, ArrayList(<<>>)),
     CompoundStatement(<<LocalDefinition("x", NoneType, IntegerLiteral(2))>>),
     CompoundStatement(<<LocalDefinition("z", NoneType, IntegerLiteral(1))>>),
     ExpressionStatement(MemberAccess(Identifier(NameToken("x")), Token("DOT", "."),
                                      Identifier(NameToken("b")))),
     ExpressionStatement(Assignment(Identifier(NameToken("x")), Token("EQUAL", "="),
                                    IntegerLiteral(2))),
     ExpressionStatement(BinaryOperation(Identifier(NameToken("a")), Token("PLUS", "+"),
                                         IntegerLiteral(1))),
     ExpressionStatement(ArrayList(<<ArrayList(<<>>), ArrayList(<<IntegerLiteral(1)>>)>>)),
     WhileStatement(Identifier(NameToken("x")), CompoundStatement(<<BreakStatement>>)),
     ReturnStatement(Identifier(NameToken("a")))}

StatementLists == SeqsUpTo(StatementPool, MaxStatements)

FunctionF(body) ==
    FunctionDefinition(NameToken("f"),
                       <<Parameter(NameToken("a"), FundamentalType("I32"))>>,
                       FundamentalType("I32"), CompoundStatement(body))

CallF ==
    ExpressionStatement(Call(NameToken("f"), <<IntegerLiteral(1)>>))

\* `let a = 1;` in the definitions
GlobalA == VariableDefinition(NameToken("a"), NoneType, IntegerLiteral(1), FALSE, TRUE)

UseOf(name) ==
    ExpressionStatement(Assignment(Identifier(NameToken(name)), Token("EQUAL", "="),
                                   IntegerLiteral(1)))

LetFrom(name, other) ==
    LocalDefinition(name, FundamentalType("I32"), Identifier(NameToken(other)))

LetOne(name) == LocalDefinition(name, FundamentalType("I32"), IntegerLiteral(1))

\* bodies that use a name in and after the scope that defines it
ScopeBodies ==
    {<<CompoundStatement(<<LetOne("z")>>), ReturnStatement(Identifier(NameToken("z")))>>,
     <<LetOne("x"), CompoundStatement(<<LetFrom("y", "x")>>), UseOf("x")>>,
     <<LetOne("x"), CompoundStatement(<<LetFrom("y", "x")>>), UseOf("y")>>,
     <<CompoundStatement(<<LetOne("x")>>), LetOne("x")>>,
     <<CompoundStatement(<<CompoundStatement(<<LetOne("z")>>), LetFrom("y", "z")>>)>>,
     <<CompoundStatement(<<LetOne("z"), CompoundStatement(<<LetFrom("y", "z")>>)>>),
       LetFrom("y", "a")>>,
     <<IfStatement(Identifier(NameToken("a")), CompoundStatement(<<LetOne("z")>>),
                   CompoundStatement(<<LetFrom("y", "z")>>))>>,
     <<WhileStatement(Identifier(NameToken("a")), CompoundStatement(<<LetOne("z")>>)),
       UseOf("z")>>,
     <<LoopStatement(CompoundStatement(<<LetOne("z"), BreakStatement>>)), LetOne("z")>>}

\* the same with a use, after the function, of its parameter or of a local
ScopePrograms ==
    {ProgramFile(<<FunctionF(body)>>, stmts) :
        body \in ScopeBodies, stmts \in {<<>>, <<UseOf("a")>>, <<UseOf("x")>>}}
    \cup {ProgramFile(<<GlobalA, FunctionF(<<>>)>>, <<UseOf("a")>>)}

AnalyzerPrograms ==
    ScopePrograms \cup
    {ProgramFile(<<>>, stmts) : stmts \in StatementLists}
    \cup {ProgramFile(<<FunctionF(body)>>, stmts) :
             body \in StatementLists, stmts \in {<<>>, <<CallF>>}}
    \cup {ProgramFile(<<GlobalA, FunctionF(body)>>, <<>>) :
             body \in SeqsUpTo(StatementPool, 1)}

InitAnalyzer ==
    /\ aSource \in AnalyzerPrograms
    /\ m_program = aSource
    /\ analyzer = NewAnalyzer
    /\ aPc = "ready"
    /\ aResult = FALSE
    /\ TypesIdle
    /\ ParserIdle
    /\ GeneratorIdle
    /\ LegalizerIdle
    /\ LexerIdle
    /\ EmitterIdle
    /\ BuildIdle
    /\ MachineIdle
    /\ CompilationIdle

\* one call analyze(m_program); a run that goes through a null pointer may
\* end in any way
AnalyzeCall ==
    /\ aPc = "ready"
    /\ LET r == analyze(analyzer, m_program)
       IN  /\ analyzer' = r.a
           /\ m_program' = r.program
           /\ IF r.a.undefined
              THEN aPc' = "undefined" /\ aResult' \in BOOLEAN
              ELSE aPc' = "analyzed" /\ aResult' = r.result
    /\ UNCHANGED aSource
    /\ UNCHANGED <<typeVars, parserVars, generatorVars, legalizerVars, lexerVars, emitterVars, buildVars, machineVars, compilationVars>>

NextAnalyzer == AnalyzeCall

SpecAnalyzer == InitAnalyzer /\ [][NextAnalyzer]_vars

(***************************************************************************)
(* The programs the code generator is run on.  Sequence.cpp hands generate *)
(* the tree the analyzer accepted, so the inputs are the trees analyze     *)
(* leaves for the sources                                                  *)
(*     fn h(p1: i32, ..., pn: i32): i32 { return pn; }                     *)
(*     fn f(a: i32, q: i64): i32 { body }                                  *)
(*     top-level statements                                                *)
(* where body puts each kind of operand (a constant, a DWord, QWord or     *)
(* Byte stack slot, AX) in each position the lowering has: an expression   *)
(* statement, an initializer, a return value, a condition, the right side  *)
(* of an assignment, either side of an infix operator and the arguments of *)
(* a call of h, which go to registers and, past the platform's argument    *)
(* registers, to the stack.                                                *)
(***************************************************************************)
MaxArguments == 7

Int32 == FundamentalType("I32")

Int64 == FundamentalType("I64")

Ref(name) == Identifier(NameToken(name))

Lexeme ==
    [PLUS |-> "+", MINUS |-> "-", STAR |-> "*", SLASH |-> "/", LESS |-> "<",
     EQUAL_EQUAL |-> "==", AND |-> "and", OR |-> "or"]

Infix(l, type, r) == BinaryOperation(l, Token(type, Lexeme[type]), r)

Minus(e) == UnaryOperation(Token("MINUS", "-"), e)

Assign(l, r) == Assignment(l, Token("EQUAL", "="), r)

ParameterName(i) == "p" \o ToString(i)

CalleeH(n) ==
    FunctionDefinition(
        NameToken("h"),
        [i \in 1..n |-> Parameter(NameToken(ParameterName(i)), Int32)],
        Int32,
        CompoundStatement(<<ReturnStatement(IF n = 0 THEN IntegerLiteral(1)
                                            ELSE Ref(ParameterName(n)))>>))

CallH(n, e) == Call(NameToken("h"), [i \in 1..n |-> e])

CallerF(body) ==
    FunctionDefinition(NameToken("f"),
                       <<Parameter(NameToken("a"), Int32), Parameter(NameToken("q"), Int64)>>,
                       Int32, CompoundStatement(body))

\* a constant, stack slots of each size, a register
SimpleOperands ==
    {IntegerLiteral(1), Ref("a"), Ref("q"), Infix(Ref("a"), "LESS", IntegerLiteral(1))}

OperandExpressions(n) ==
    SimpleOperands
    \cup {Minus(Ref("a")), Infix(Ref("a"), "SLASH", IntegerLiteral(2)),
          Infix(IntegerLiteral(1), "LESS", Ref("a")),
          Infix(Ref("q"), "PLUS", Ref("q")),
          Infix(Ref("a"), "STAR", Ref("a")),
          Infix(Infix(Ref("a"), "STAR", Ref("a")), "LESS", IntegerLiteral(1)),
          Infix(Ref("a"), "AND", Ref("a")),
          CallH(n, IntegerLiteral(1))}

InfixTypes == {"PLUS", "MINUS", "STAR", "SLASH", "LESS", "EQUAL_EQUAL", "AND", "OR"}

SetA(v) == ExpressionStatement(Assign(Ref("a"), IntegerLiteral(v)))

GeneralBodies(n) ==
    UNION {
        {<<ExpressionStatement(e)>>,
         <<LocalDefinition("y", NoneType, e)>>,
         <<LocalDefinition("y", Int32, e)>>,
         <<LocalDefinition("y", Int64, e)>>,
         <<LocalDefinition("y", NoneType, e), ReturnStatement(Ref("y"))>>,
         <<ReturnStatement(e)>>,
         <<IfStatement(e, CompoundStatement(<<SetA(1)>>), NullNode)>>,
         <<IfStatement(e, CompoundStatement(<<SetA(1)>>), CompoundStatement(<<SetA(2)>>))>>,
         <<WhileStatement(e, CompoundStatement(<<BreakStatement>>))>>,
         <<LoopStatement(CompoundStatement(<<ExpressionStatement(e), ContinueStatement>>))>>,
         <<ExpressionStatement(Assign(Ref("a"), e))>>,
         <<ExpressionStatement(Assign(Ref("q"), e))>>}
        \cup {<<ExpressionStatement(Infix(e, type, other))>> :
                 type \in InfixTypes, other \in SimpleOperands}
        \cup {<<LocalDefinition("r", Int64, Infix(e, type, Ref("q")))>> :
                 type \in {"PLUS", "STAR"}}
        : e \in OperandExpressions(n)}

CallBodies(n) ==
    UNION {{<<ExpressionStatement(CallH(n, e))>>,
            <<ReturnStatement(CallH(n, e))>>} : e \in OperandExpressions(n)}

TopLevelStatements(n) ==
    {<<>>,
     <<ExpressionStatement(Minus(IntegerLiteral(1)))>>,
     <<ExpressionStatement(CallH(n, IntegerLiteral(2))),
       ExpressionStatement(Infix(IntegerLiteral(1), "PLUS", IntegerLiteral(2)))>>}

\* a function of one parameter; a call k(v) is told from the others by its constant
CalleeK ==
    FunctionDefinition(NameToken("k"), <<Parameter(NameToken("p1"), Int32)>>, Int32,
                       CompoundStatement(<<ReturnStatement(Ref("p1"))>>))

CallK(v) == Call(NameToken("k"), <<IntegerLiteral(v)>>)

\* bodies whose operands and arguments are calls: h(k(1), ..., k(n)) and k(1) op k(2)
OrderBodies(n) ==
    {<<ExpressionStatement(Call(NameToken("h"), [i \in 1..n |-> CallK(i)]))>>}
    \cup (IF n = 1
          THEN {<<ExpressionStatement(Infix(CallK(1), type, CallK(2)))>> : type \in InfixTypes}
          ELSE {})

\* an exit of a loop body, if any
LoopExits == {<<>>, <<BreakStatement>>, <<ContinueStatement>>}

Looping(kind, body) ==
    IF kind = "loop" THEN LoopStatement(CompoundStatement(body))
    ELSE WhileStatement(Ref("a"), CompoundStatement(body))

LoopKinds == {"loop", "while"}

\* a loop in a loop with exits before, in and after the inner loop; three
\* loops in one another; an exit under an if and an if/else in a loop that
\* another loop follows
NestBodies ==
    {<<Looping(outer, before \o <<Looping(inner, in)>> \o after)>> :
        outer \in LoopKinds, inner \in LoopKinds,
        before \in LoopExits, in \in LoopExits \ {<<>>}, after \in LoopExits}
    \cup {<<Looping(outer,
                    <<Looping("loop", <<Looping("while", <<BreakStatement>>),
                                        ContinueStatement>>),
                      BreakStatement>>)>> : outer \in LoopKinds}
    \cup {<<Looping(outer,
                    <<IfStatement(Ref("a"), CompoundStatement(<<BreakStatement>>), NullNode),
                      IfStatement(Infix(Ref("a"), "OR", IntegerLiteral(0)),
                                  CompoundStatement(<<ContinueStatement>>),
                                  CompoundStatement(<<BreakStatement>>))>>),
             Looping("loop", <<BreakStatement>>)>> : outer \in LoopKinds}

\* a second function with a loop and an if of its own
LooperG ==
    FunctionDefinition(NameToken("g"), <<Parameter(NameToken("a"), Int32)>>, Int32,
                       CompoundStatement(
                           <<Looping("while",
                                     <<IfStatement(Ref("a"), CompoundStatement(<<BreakStatement>>),
                                                   CompoundStatement(<<ContinueStatement>>))>>)>>))

NestSources ==
    {ProgramFile(<<CallerF(body)>>, <<>>) : body \in NestBodies}
    \cup {ProgramFile(<<LooperG, CallerF(body)>>, <<Looping("loop", <<BreakStatement>>)>>) :
             body \in {b \in NestBodies : Len(b) = 2}}

OrderSources ==
    UNION {{ProgramFile(<<CalleeK, CalleeH(n), CallerF(body)>>, <<>>) :
               body \in OrderBodies(n)} : n \in 0..MaxArguments}

GeneratorSources ==
    OrderSources \cup NestSources \cup
    UNION {{ProgramFile(<<CalleeH(n), CallerF(body)>>, statements) :
               body \in CallBodies(n) \cup (IF n = 1 THEN GeneralBodies(n) ELSE {}),
               statements \in TopLevelStatements(n)}
           \cup {ProgramFile(<<>>, statements) : statements \in TopLevelStatements(n) \ {<<>>}}
           : n \in 0..MaxArguments}
    \cup {ProgramFile(<<>>, <<>>)}

\* the trees of the sources analyze accepts
GeneratorPrograms ==
    {analyze(NewAnalyzer, source).program :
        source \in {s \in GeneratorSources :
                       LET r == analyze(NewAnalyzer, s) IN r.result /\ ~r.a.undefined}}

Platforms == {"Win", "Mac"}

ArgumentOrders == {"LeftToRight", "RightToLeft"}

DecoratorReads == {"External", "Other"}

\* programs with decorated definitions, as the parser builds them: the
\* analyzer of this repository has no case for a decorated definition
DecoratedSources ==
    UNION {{ProgramFile(<<DecoratedDefinition(decorator, CalleeH(n))>> \o others, <<>>) :
               decorator \in {"External", "Internal"},
               others \in {<<>>,
                           <<CallerF(<<ExpressionStatement(CallH(n, IntegerLiteral(1)))>>)>>,
                           <<DecoratedDefinition("External", CalleeK)>>,
                           <<CalleeK>>}}
           : n \in {0, 1, MaxArguments}}

InitGenerator ==
    /\ gSource \in GeneratorPrograms \cup DecoratedSources
    /\ gProgram = gSource
    /\ gPlatform \in Platforms
    /\ codeGenerator \in {NewCodeGenerator(order, read) :
                             order \in ArgumentOrders, read \in DecoratorReads}
    /\ gPc = "ready"
    /\ TypesIdle
    /\ ParserIdle
    /\ AnalyzerIdle
    /\ LegalizerIdle
    /\ LexerIdle
    /\ EmitterIdle
    /\ BuildIdle
    /\ MachineIdle
    /\ CompilationIdle

\* one call generate(gProgram, gPlatform); the list it returns is the
\* generator's m_instructions.  A run that goes through undefined behaviour
\* may leave any list.
Generate ==
    /\ gPc = "ready"
    /\ LET r == generate(codeGenerator, gProgram, gPlatform)
           lowered == ProgramFile(
                          [i \in 1..Len(gProgram.definitions) |->
                              afterGenerateCall(gPlatform, gProgram.definitions[i])],
                          [i \in 1..Len(gProgram.statements) |->
                              afterGenerateCall(gPlatform, gProgram.statements[i])])
       IN  IF r.g.undefined
           THEN /\ gPc' = "undefined"
                /\ codeGenerator' \in {r.g, [r.g EXCEPT !.m_instructions = <<>>],
                                        [r.g EXCEPT !.m_externals = Append(@, "")]}
                /\ gProgram' \in {gProgram, lowered}
           ELSE /\ gPc' = "generated"
                /\ codeGenerator' = r.g
                /\ gProgram' = lowered
    /\ UNCHANGED <<gSource, gPlatform>>
    /\ UNCHANGED <<typeVars, parserVars, analyzerVars, legalizerVars, lexerVars, emitterVars, buildVars, machineVars, compilationVars>>

NextGenerator == Generate

SpecGenerator == InitGenerator /\ [][NextGenerator]_vars

(***************************************************************************)
(* The instruction lists validateInstructions is run on by itself: every   *)
(* list of up to MaxInstructions instructions over the instruction kinds   *)
(* the legalizer rewrites and operands of each kind and size, bare or as   *)
(* the body of a function.  MaxPasses passes are made over a list.         *)
(***************************************************************************)
MaxInstructions == 2

MaxPasses == 3

OperandPool ==
    {intConst(1), TempOperand(4, DWord), TempOperand(16, QWord), reg("CX", DWord)}

InstructionPool ==
    {move(source, destination) :
        source \in OperandPool, destination \in OperandPool \ {intConst(1)}}
    \cup {add(destination, other) :
             destination \in OperandPool \ {intConst(1)}, other \in OperandPool}
    \cup {sub(destination, other) :
             destination \in {TempOperand(4, DWord)}, other \in OperandPool}
    \cup {mul(destination, other) :
             destination \in OperandPool \ {intConst(1)}, other \in {intConst(1)}}
    \cup {cmp(left, intConst(0)) : left \in OperandPool}
    \cup {push(src) : src \in OperandPool}
    \cup {DivInstruction(TempOperand(4, DWord)), CdqInstruction, ReturnInstruction}

InstructionLists ==
    LET lists == SeqsUpTo(InstructionPool, MaxInstructions)
    IN  lists \cup {<<FunctionDefInstruction("f", list, 0)>> : list \in lists}

InitLegalizer ==
    /\ lSource \in InstructionLists
    /\ lInstructions = lSource
    /\ lPrevious = lSource
    /\ lPasses = 0
    /\ lPc = "ready"
    /\ TypesIdle
    /\ ParserIdle
    /\ AnalyzerIdle
    /\ GeneratorIdle
    /\ LexerIdle
    /\ EmitterIdle
    /\ BuildIdle
    /\ MachineIdle
    /\ CompilationIdle

\* one call validateInstructions(&lInstructions)
ValidateInstructions ==
    /\ lPc = "ready"
    /\ lPasses < MaxPasses
    /\ lPrevious' = lInstructions
    /\ lInstructions' = validateInstructions(lInstructions)
    /\ lPasses' = lPasses + 1
    /\ UNCHANGED <<lSource, lPc>>
    /\ UNCHANGED <<typeVars, parserVars, analyzerVars, generatorVars, lexerVars, emitterVars, buildVars, machineVars, compilationVars>>

NextLegalizer == ValidateInstructions

SpecLegalizer == InitLegalizer /\ [][NextLegalizer]_vars

(***************************************************************************)
(* The files the lexer is run on: no file, and every content of at most    *)
(* MaxFileLength characters over an alphabet with letters (`if` is a       *)
(* keyword), a digit, punctuation that starts one- and two-character       *)
(* tokens and comments, a quote, white space, a character the lexer does   *)
(* not know and the character '\0'.                                        *)
(***************************************************************************)
MaxFileLength == 3

Alphabet == {"a", "i", "f", "1", ".", ";", "=", ">", "-", "/", "*", "\"", " ", "\n", "@", Nul}

FileContents == UNION {[1..n -> Alphabet] : n \in 0..MaxFileLength}

InitLexer ==
    /\ lxExists \in BOOLEAN
    /\ lxContent \in IF lxExists THEN FileContents ELSE {<<>>}
    /\ lexer = NewLexer
    /\ lxPc = "ready"
    /\ lxResult = FALSE
    /\ TypesIdle
    /\ ParserIdle
    /\ AnalyzerIdle
    /\ GeneratorIdle
    /\ LegalizerIdle
    /\ EmitterIdle
    /\ BuildIdle
    /\ MachineIdle
    /\ CompilationIdle

\* one call analyze(filepath); a run that reaches undefined behaviour may leave
\* any of the outcomes below
LexerAnalyze ==
    /\ lxPc = "ready"
    /\ LET r == lexerAnalyze(lexer, lxExists, lxContent)
       IN  IF r.lx.undefined
           THEN /\ lxPc' = "undefined"
                /\ lexer' \in {r.lx, [r.lx EXCEPT !.m_tokens = <<>>]}
                /\ lxResult' \in BOOLEAN
           ELSE /\ lxPc' = "analyzed"
                /\ lexer' = r.lx
                /\ lxResult' = r.result
    /\ UNCHANGED <<lxExists, lxContent>>
    /\ UNCHANGED <<typeVars, parserVars, analyzerVars, generatorVars, legalizerVars, emitterVars, buildVars, machineVars, compilationVars>>

NextLexer == LexerAnalyze

SpecLexer == InitLexer /\ [][NextLexer]_vars

(***************************************************************************)
(* The calls of emit made on one IntelCodeEmission object: up to           *)
(* MaxEmitCalls calls, each with one of the instruction lists below, with  *)
(* or without an external name, for either platform.                       *)
(***************************************************************************)
MaxEmitCalls == 2

ReturnZero == FunctionDefInstruction("main", <<move(intConst(0), reg("AX", DWord)), ReturnInstruction>>, 0)

\* a function that holds every kind of instruction
EveryInstruction ==
    FunctionDefInstruction(
        "f",
        <<move(reg("CX", DWord), TempOperand(4, DWord)),
          [move(TempOperand(4, DWord), reg("R10", QWord)) EXCEPT !.signExtend = TRUE],
          negate(TempOperand(4, DWord)), bitwiseNot(TempOperand(4, DWord)),
          add(reg("SP", QWord), intConst(40)), sub(reg("SP", QWord), intConst(40)),
          mul(reg("R11", DWord), TempOperand(-16, DWord)),
          CdqInstruction, DivInstruction(TempOperand(8, DWord)),
          cmp(reg("AX", DWord), intConst(-1)), set(TempOperand(12, Byte), "Less"),
          jmp(".CE1", "Equal"), jmp(".CE1", "None"), label(".CE1"),
          push(intConst(1)), call("p")>> \o <<move(intConst(0), reg("AX", DWord)), ReturnInstruction>>,
        12)

EmitterLists == {<<>>, <<ReturnZero>>, <<EveryInstruction>>, <<EveryInstruction, ReturnZero>>}

EmitterExternals == {<<>>, <<"p">>}

InitEmitter ==
    /\ emitter = NewEmitter
    /\ eInstructions = <<>>
    /\ eExternals = <<>>
    /\ ePlatform = "Win"
    /\ eResult = ""
    /\ eCalls = 0
    /\ TypesIdle
    /\ ParserIdle
    /\ AnalyzerIdle
    /\ GeneratorIdle
    /\ LegalizerIdle
    /\ LexerIdle
    /\ BuildIdle
    /\ MachineIdle
    /\ CompilationIdle

\* one call emitter.emit(instructions, externals, platform)
Emit ==
    /\ eCalls < MaxEmitCalls
    /\ \E instructions \in EmitterLists, externals \in EmitterExternals,
          platform \in Platforms :
          /\ emitter' = emit(emitter, instructions, externals, platform)
          /\ eResult' = output(emitter')
          /\ eInstructions' = instructions
          /\ eExternals' = externals
          /\ ePlatform' = platform
    /\ eCalls' = eCalls + 1
    /\ UNCHANGED <<typeVars, parserVars, analyzerVars, generatorVars, legalizerVars, lexerVars, buildVars, machineVars, compilationVars>>

NextEmitter == Emit

SpecEmitter == InitEmitter /\ [][NextEmitter]_vars

(***************************************************************************)
(* The builds: a project directory with or without build_config.json, an   *)
(* architecture of the configuration, and a source file that is missing or *)
(* holds up to MaxBuildLength characters: files that fail in the lexer     *)
(* (`@`), in the parser (`1`), in the analysis (`a;`) and files that build *)
(* (`-1;`).  Literals above MaxLiteral are left out.                       *)
(***************************************************************************)
MaxBuildLength == 3

BuildAlphabet == {"1", ";", "a", "@", "-"}

BuildContents ==
    {c \in UNION {[1..n -> BuildAlphabet] : n \in 0..MaxBuildLength} :
        \A i \in 1..(Len(c) - 1) : ~(isDigit(c[i]) /\ isDigit(c[i + 1]))}

Architectures == {"x86_64-intel-win", "x86_64-intel-mac", "arm64"}

InitBuild ==
    /\ bConfigExists \in BOOLEAN
    /\ bArchitecture \in IF bConfigExists THEN Architectures ELSE {""}
    /\ bFileExists \in BOOLEAN
    /\ bContent \in IF bFileExists THEN BuildContents ELSE {<<>>}
    /\ build \in {NewBuild(order, read) : order \in ArgumentOrders, read \in DecoratorReads}
    /\ TypesIdle
    /\ ParserIdle
    /\ AnalyzerIdle
    /\ GeneratorIdle
    /\ LegalizerIdle
    /\ LexerIdle
    /\ EmitterIdle
    /\ MachineIdle
    /\ CompilationIdle

\* what a build that went through undefined behaviour may leave
UndefinedBuilds(b) ==
    {[b EXCEPT !.pc = "undefined", !.undefined = TRUE, !.asmFile = file,
               !.returned = value] :
        file \in {NoFile, [written |-> TRUE, content |-> ""]},
        value \in {"running", "true", "false"}}

BuildOutcomes(b) == IF b.undefined THEN UndefinedBuilds(b) ELSE {b}

BuildStep(b) ==
    /\ build' \in BuildOutcomes(b)
    /\ UNCHANGED <<bConfigExists, bArchitecture, bFileExists, bContent>>
    /\ UNCHANGED <<typeVars, parserVars, analyzerVars, generatorVars, legalizerVars, lexerVars, emitterVars, machineVars, compilationVars>>

BuildConfig == build.pc = "config" /\ BuildStep(buildConfig(build, bConfigExists, bArchitecture))

BuildLex == build.pc = "lex" /\ BuildStep(buildLex(build, bFileExists, bContent))

BuildParse == build.pc = "parse" /\ BuildStep(buildParse(build))

BuildAnalyze == build.pc = "analyze" /\ BuildStep(buildAnalyze(build))

BuildGenerate == build.pc = "generate" /\ BuildStep(buildGenerate(build))

BuildEmit == build.pc = "emit" /\ BuildStep(buildEmit(build))

NextBuild ==
    \/ BuildConfig
    \/ BuildLex
    \/ BuildParse
    \/ BuildAnalyze
    \/ BuildGenerate
    \/ BuildEmit

SpecBuild == InitBuild /\ [][NextBuild]_vars

(***************************************************************************)
(* The logical operations that are executed: `x and y` and `x or y` where  *)
(* x and y are the literals 0..MaxOperand or their negations, in the       *)
(* function `fn f(): i32 { x op y; }` as generateFunctionDefinition lowers *)
(* it and the two validateInstructions passes leave it, and the calls      *)
(* `h(1, ..., 1)` with 0..MaxArguments arguments and `h(1, 2, ..., n)`     *)
(* with up to MaxCallArguments, for either platform.                       *)
(* Registers and stack slots start with the same arbitrary value.          *)
(***************************************************************************)
MaxOperand == 2

Garbage == 7

LogicalOperands ==
    {IntegerLiteral(v) : v \in 0..MaxOperand} \cup {Minus(IntegerLiteral(v)) : v \in 0..MaxOperand}

LogicalExpressions ==
    {Infix(x, type, y) : x \in LogicalOperands, type \in {"AND", "OR"}, y \in LogicalOperands}

FunctionOf(e) ==
    FunctionDefinition(NameToken("f"), <<>>, Int32,
                       CompoundStatement(<<ExpressionStatement(e)>>))

\* x < y and x == y over constants, quotients and comparisons
RelationalOperands ==
    {IntegerLiteral(1), IntegerLiteral(MaxOperand),
     Infix(IntegerLiteral(MaxOperand), "SLASH", IntegerLiteral(1)),
     Infix(IntegerLiteral(1), "LESS", IntegerLiteral(MaxOperand))}

RelationalExpressions ==
    {Infix(x, type, y) :
        x \in RelationalOperands, type \in {"LESS", "EQUAL_EQUAL"}, y \in RelationalOperands}

MaxCallArguments == 8

\* h(1, ..., 1) and h(1, 2, ..., n), and the calls whose arguments are calls:
\* h(k(1), ..., k(n)) and k(k(1))
CallExpressions ==
    {CallH(n, IntegerLiteral(1)) : n \in 0..MaxArguments}
    \cup {Call(NameToken("h"), [i \in 1..n |-> IntegerLiteral(i)]) : n \in 1..MaxCallArguments}
    \cup {Call(NameToken("h"), [i \in 1..n |-> CallK(i)]) : n \in 1..MaxCallArguments}
    \cup {Call(NameToken("k"), <<CallK(1)>>)}

\* the instructions of the function after generate's two passes
LoweredFunction(e, platform) ==
    validateInstructions(validateInstructions(
        generateFunctionDefinition(
            [NewCodeGenerator("LeftToRight", "Other") EXCEPT !.m_platform = platform],
            FunctionOf(e), <<>>).instructions))[1].instructions

InitMachine ==
    /\ mExpression \in LogicalExpressions \cup CallExpressions \cup RelationalExpressions
    /\ mPlatform \in Platforms
    /\ mInstructions = LoweredFunction(mExpression, mPlatform)
    /\ machine \in {NewMachine(0), NewMachine(Garbage)}
    /\ TypesIdle
    /\ ParserIdle
    /\ AnalyzerIdle
    /\ GeneratorIdle
    /\ LegalizerIdle
    /\ LexerIdle
    /\ EmitterIdle
    /\ BuildIdle
    /\ CompilationIdle

\* the machine executes the instruction at pc
Execute ==
    /\ ~machine.halted
    /\ ~machine.calling
    /\ machine.pc <= Len(mInstructions)
    /\ machine' = execute(machine, mInstructions)
    /\ UNCHANGED <<mExpression, mPlatform, mInstructions>>
    /\ UNCHANGED <<typeVars, parserVars, analyzerVars, generatorVars, legalizerVars, lexerVars, emitterVars, buildVars, compilationVars>>

\* the function called returns some value
CalleeReturns ==
    /\ machine.calling
    /\ \E value \in {0, 1} : machine' = calleeReturns(machine, value)
    /\ UNCHANGED <<mExpression, mPlatform, mInstructions>>
    /\ UNCHANGED <<typeVars, parserVars, analyzerVars, generatorVars, legalizerVars, lexerVars, emitterVars, buildVars, compilationVars>>

NextMachine == Execute \/ CalleeReturns

SpecMachine == InitMachine /\ [][NextMachine]_vars

(***************************************************************************)
(* The programs analyzed more than once in one process.  The counters of   *)
(* createUnique and uniqueLoop are function-local statics: they belong to  *)
(* the process, not to a SemanticAnalyzer object, so a new object starts   *)
(* with empty tables and with the counters where the last analysis left    *)
(* them.  Every analysis is given the tree as the parser built it.         *)
(***************************************************************************)
MaxCompilations == 2

CompiledPrograms ==
    {ProgramFile(<<>>, stmts) : stmts \in SeqsUpTo(StatementPool, 1)}
    \cup {ProgramFile(<<FunctionF(body)>>, stmts) :
             body \in SeqsUpTo(StatementPool, 1), stmts \in {<<>>, <<CallF>>}}
    \cup {ProgramFile(<<FunctionF(<<LoopStatement(CompoundStatement(body))>>)>>, <<>>) :
             body \in {<<BreakStatement>>,
                       <<LocalDefinition("x", NoneType, IntegerLiteral(1)), ContinueStatement>>}}

InitCompilation ==
    /\ rSource \in CompiledPrograms
    /\ rObject \in {"fresh", "reused"}
    /\ rAnalyzer = NewAnalyzer
    /\ rPrograms = <<>>
    /\ rPc = "ready"
    /\ TypesIdle
    /\ ParserIdle
    /\ AnalyzerIdle
    /\ GeneratorIdle
    /\ LegalizerIdle
    /\ LexerIdle
    /\ EmitterIdle
    /\ BuildIdle
    /\ MachineIdle

\* the statics stay; everything else is as the constructor leaves it
newAnalyzerObject(a) == [NewAnalyzer EXCEPT !.index = a.index, !.loopIndex = a.loopIndex]

\* one more analyze(&program) of the program, on the analyzer used before or
\* on a new one; a run that goes through a null pointer may leave either tree
Compile ==
    /\ rPc = "ready"
    /\ Len(rPrograms) < MaxCompilations
    /\ LET r == analyze(IF rObject = "fresh" THEN newAnalyzerObject(rAnalyzer) ELSE rAnalyzer,
                        rSource)
       IN  /\ rAnalyzer' = r.a
           /\ IF r.a.undefined
              THEN /\ rPc' = "undefined"
                   /\ \E program \in {r.program, rSource}, result \in BOOLEAN :
                         rPrograms' = Append(rPrograms, [program |-> program, result |-> result])
              ELSE /\ rPc' = "ready"
                   /\ rPrograms' = Append(rPrograms, [program |-> r.program, result |-> r.result])
    /\ UNCHANGED <<rSource, rObject>>
    /\ UNCHANGED <<typeVars, parserVars, analyzerVars, generatorVars, legalizerVars, lexerVars, emitterVars, buildVars, machineVars>>

NextCompilation == Compile

SpecCompilation == InitCompilation /\ [][NextCompilation]_vars

(***************************************************************************)
(* C8: sameType(a, b) is true iff a and b are the same variant with        *)
(* recursively equal children (structural equality), also for Function     *)
(* types, and sameType(t, t) is true for every t.                          *)
(***************************************************************************)
C8_SameTypeIsStructuralEquality ==
    tyPc = "returned" => (tyResult <=> (tyA = tyB))

(***************************************************************************)
(* C10: led returns a non-null node for every infix token with a non-zero  *)
(* binding power (also `and` and `or`), hence a successful parse leaves no *)
(* null expression in the tree.                                            *)
(***************************************************************************)
RECURSIVE HasNullExpression(_)
\* whether an expression of the (sub)tree is a null pointer
HasNullExpression(n) ==
    CASE n.nodeType = "nullptr" -> TRUE
      [] n.nodeType = "UnaryOperation" -> HasNullExpression(n.expression)
      [] n.nodeType \in {"BinaryOperation", "Assignment", "MemberAccess"} ->
            HasNullExpression(n.left) \/ HasNullExpression(n.right)
      [] n.nodeType = "Call" ->
            \E i \in 1..Len(n.argumentList) : HasNullExpression(n.argumentList[i])
      [] n.nodeType = "ArrayList" ->
            \E i \in 1..Len(n.elements) : HasNullExpression(n.elements[i])
      [] n.nodeType \in {"ExpressionStatement", "ReturnStatement"} ->
            HasNullExpression(n.expression)
      [] n.nodeType = "CompoundStatement" ->
            \E i \in 1..Len(n.statements) : HasNullExpression(n.statements[i])
      [] n.nodeType = "IfStatement" ->
            \/ HasNullExpression(n.condition)
            \/ HasNullExpression(n.ifBody)
            \/ (n.elseBody # NullNode /\ HasNullExpression(n.elseBody))
      [] n.nodeType = "LoopStatement" -> HasNullExpression(n.loopBody)
      [] n.nodeType = "WhileStatement" ->
            HasNullExpression(n.condition) \/ HasNullExpression(n.loopBody)
      [] n.nodeType = "VariableDefinition" ->
            n.initializer # NullNode /\ HasNullExpression(n.initializer)
      [] n.nodeType = "FunctionDefinition" -> HasNullExpression(n.functionBody)
      [] OTHER -> FALSE

C10_LedReturnsNode ==
    pPc = "parsed" =>
        /\ \A i \in 1..Len(pTokens) :
              tokenBindingPower(pTokens[i]) > 0 =>
                 led([tokens |-> pTokens, idx |-> i, errors |-> <<>>], pTokens[i],
                     Identifier(Token("IDENTIFIER", "a"))).node # NullNode
        /\ pResult =>
              /\ \A i \in 1..Len(m_programFile.statements) :
                    ~HasNullExpression(m_programFile.statements[i])
              /\ \A i \in 1..Len(m_programFile.definitions) :
                    ~HasNullExpression(m_programFile.definitions[i])

(***************************************************************************)
(* C9: parseType maps every type keyword to the fundamental type of the    *)
(* same name (i8, i16 and bool stored as I32), so a variable declared f32  *)
(* and initialised with a float literal passes the analysis.               *)
(***************************************************************************)
SameNameBasicType(token) ==
    CASE token.type = "KEY_I64" -> "I64"
      [] token.type = "KEY_F32" -> "F32"
      [] token.type = "KEY_F64" -> "F64"
      [] OTHER -> "I32"

C9_KeywordNamesItsType ==
    (/\ pPc = "parsed"
     /\ Len(pTokens) = 8
     /\ pTokens[1].type = "LET"
     /\ pTokens[3].type = "COLON"
     /\ isTypeToken(pTokens[4])
     /\ pTokens[4].type # "KEY_NULL")
    => /\ pResult
       /\ m_programFile.statements[1].variableType
             = FundamentalType(SameNameBasicType(pTokens[4]))
       /\ (pTokens[4].type = "KEY_F32" /\ pTokens[6].type = "TYPE_FLOAT")
             => analyze(NewAnalyzer, m_programFile).result

(***************************************************************************)
(* C4: after a successful analyze every parameter and every local variable *)
(* definition carries a fresh name `name.k`, different from the name of    *)
(* every other parameter and local of the program, and every reference     *)
(* carries the unique name of a declaration.                               *)
(***************************************************************************)
RECURSIVE Declarations(_)
RECURSIVE DeclarationsOfList(_, _)
\* the names of the parameters and local variable definitions, in tree order
Declarations(n) ==
    CASE n.nodeType = "FunctionDefinition" ->
            [i \in 1..Len(n.parameterList) |-> n.parameterList[i].nameToken.value]
                \o Declarations(n.functionBody)
      [] n.nodeType = "VariableDefinition" ->
            IF n.isGlobal THEN <<>> ELSE <<n.nameToken.value>>
      [] n.nodeType = "CompoundStatement" -> DeclarationsOfList(n.statements, 1)
      [] n.nodeType = "IfStatement" ->
            Declarations(n.ifBody)
                \o (IF n.elseBody = NullNode THEN <<>> ELSE Declarations(n.elseBody))
      [] n.nodeType \in {"LoopStatement", "WhileStatement"} -> Declarations(n.loopBody)
      [] OTHER -> <<>>

DeclarationsOfList(list, i) ==
    IF i > Len(list) THEN <<>>
    ELSE Declarations(list[i]) \o DeclarationsOfList(list, i + 1)

ProgramDeclarations(program) ==
    DeclarationsOfList(program.definitions, 1) \o DeclarationsOfList(program.statements, 1)

RECURSIVE References(_)
\* the names the Identifier expressions of a tree carry (a member access's
\* right side names a member, not a variable)
References(n) ==
    CASE n.nodeType = "Identifier" -> {n.idToken.value}
      [] n.nodeType = "UnaryOperation" -> References(n.expression)
      [] n.nodeType \in {"BinaryOperation", "Assignment"} ->
            References(n.left) \cup References(n.right)
      [] n.nodeType = "MemberAccess" -> References(n.left)
      [] n.nodeType = "Call" ->
            UNION {References(n.argumentList[i]) : i \in 1..Len(n.argumentList)}
      [] n.nodeType = "ArrayList" ->
            UNION {References(n.elements[i]) : i \in 1..Len(n.elements)}
      [] n.nodeType \in {"ExpressionStatement", "ReturnStatement"} ->
            References(n.expression)
      [] n.nodeType = "CompoundStatement" ->
            UNION {References(n.statements[i]) : i \in 1..Len(n.statements)}
      [] n.nodeType = "IfStatement" ->
            References(n.condition) \cup References(n.ifBody) \cup References(n.elseBody)
      [] n.nodeType = "LoopStatement" -> References(n.loopBody)
      [] n.nodeType = "WhileStatement" ->
            References(n.condition) \cup References(n.loopBody)
      [] n.nodeType = "VariableDefinition" -> References(n.initializer)
      [] n.nodeType = "FunctionDefinition" -> References(n.functionBody)
      [] OTHER -> {}

ProgramReferences(program) ==
    UNION {References(program.definitions[i]) : i \in 1..Len(program.definitions)}
    \cup UNION {References(program.statements[i]) : i \in 1..Len(program.statements)}

C4_LocalsCarryUniqueNames ==
    (aPc = "analyzed" /\ aResult) =>
        LET source == ProgramDeclarations(aSource)
            unique == ProgramDeclarations(m_program)
        IN  /\ \A i \in 1..Len(unique) :
                  \E k \in 0..Len(unique) : unique[i] = source[i] \o "." \o ToString(k)
            /\ \A i, j \in 1..Len(unique) : i # j => unique[i] # unique[j]
            /\ ProgramReferences(m_program) \subseteq {unique[i] : i \in 1..Len(unique)}

(***************************************************************************)
(* C5: a variable defined without a declared type gets the type of its     *)
(* initializer, and a later reference to it has that type: a definition    *)
(* `let y: T = x;` that follows `let x = E;` with E of type T passes, and  *)
(* the reference's type is the type of E.                                  *)
(***************************************************************************)
IsLiteral(e) ==
    e.nodeType \in {"IntegerLiteral", "FloatLiteral", "StringLiteral", "CharacterLiteral"}

C5_InferredTypeReachesReferences ==
    (/\ aPc = "analyzed"
     /\ Len(aSource.statements) = 2
     /\ aSource.statements[1].nodeType = "VariableDefinition"
     /\ aSource.statements[1].variableType = NoneType
     /\ IsLiteral(aSource.statements[1].initializer)
     /\ aSource.statements[2].nodeType = "VariableDefinition"
     /\ aSource.statements[2].nameToken # aSource.statements[1].nameToken
     /\ aSource.statements[2].initializer = Identifier(aSource.statements[1].nameToken))
    => LET inferred == m_program.statements[1].initializer.expressionType
       IN  /\ aSource.statements[2].variableType \in {NoneType, inferred} => aResult
           /\ aResult => m_program.statements[2].initializer.expressionType = inferred

(***************************************************************************)
(* C6: a local variable definition is rejected as already defined exactly  *)
(* when its name is in the innermost scope; a name of an enclosing scope   *)
(* (an outer block or the parameters) can be defined again.                *)
(***************************************************************************)
RECURSIVE ScopeWalk(_, _)
RECURSIVE ScopeWalkList(_, _, _)
\* walks a statement met in a scope that holds the names `declared`: whether
\* a definition repeats a name of its own scope, and the scope's names after
ScopeWalk(s, declared) ==
    CASE s.nodeType = "VariableDefinition" ->
            [redefined |-> s.nameToken.value \in declared,
             declared |-> declared \cup {s.nameToken.value}]
      [] s.nodeType = "CompoundStatement" ->
            [redefined |-> ScopeWalkList(s.statements, 1, {}).redefined,
             declared |-> declared]
      [] s.nodeType = "IfStatement" ->
            LET t == ScopeWalk(s.ifBody, declared)
                e == IF s.elseBody = NullNode THEN [redefined |-> FALSE, declared |-> t.declared]
                     ELSE ScopeWalk(s.elseBody, t.declared)
            IN  [redefined |-> t.redefined \/ e.redefined, declared |-> e.declared]
      [] s.nodeType \in {"LoopStatement", "WhileStatement"} -> ScopeWalk(s.loopBody, declared)
      [] OTHER -> [redefined |-> FALSE, declared |-> declared]

ScopeWalkList(list, i, declared) ==
    IF i > Len(list) THEN [redefined |-> FALSE, declared |-> declared]
    ELSE LET r == ScopeWalk(list[i], declared)
             rest == ScopeWalkList(list, i + 1, r.declared)
         IN  [redefined |-> r.redefined \/ rest.redefined, declared |-> rest.declared]

SameScopeRedefinition(program) ==
    \/ ScopeWalkList(program.statements, 1, {}).redefined
    \/ \E i \in 1..Len(program.definitions) :
          /\ program.definitions[i].nodeType = "FunctionDefinition"
          /\ ScopeWalk(program.definitions[i].functionBody, {}).redefined

AlreadyDefinedLocally(errors) ==
    \E i \in 1..Len(errors) :
       \E j \in 1..Len(ProgramDeclarations(aSource)) :
          errors[i] = "Variable '" \o ProgramDeclarations(aSource)[j]
                          \o "' is already defined in local scope"

C6_RejectedIffInInnermostScope ==
    aPc = "analyzed" =>
        /\ AlreadyDefinedLocally(analyzer.errors) => SameScopeRedefinition(aSource)
        /\ aResult => ~SameScopeRedefinition(aSource)

(***************************************************************************)
(* C7: after a successful analyze every expression the analyzer visited    *)
(* has an expressionType that is neither null nor the Empty type.          *)
(***************************************************************************)
RECURSIVE VisitedExpressions(_)
\* the expression nodes analyzeExpression is called on (of a member access:
\* the access itself and its left side when that is an identifier)
VisitedExpressions(n) ==
    CASE IsLiteral(n) \/ n.nodeType = "Identifier" -> {n}
      [] n.nodeType = "UnaryOperation" -> {n} \cup VisitedExpressions(n.expression)
      [] n.nodeType \in {"BinaryOperation", "Assignment"} ->
            {n} \cup VisitedExpressions(n.left) \cup VisitedExpressions(n.right)
      [] n.nodeType = "MemberAccess" ->
            {n} \cup (IF n.left.nodeType = "Identifier" THEN {n.left} ELSE {})
      [] n.nodeType = "Call" ->
            {n} \cup UNION {VisitedExpressions(n.argumentList[i]) :
                               i \in 1..Len(n.argumentList)}
      [] n.nodeType = "ArrayList" ->
            {n} \cup UNION {VisitedExpressions(n.elements[i]) : i \in 1..Len(n.elements)}
      [] n.nodeType \in {"ExpressionStatement", "ReturnStatement"} ->
            VisitedExpressions(n.expression)
      [] n.nodeType = "CompoundStatement" ->
            UNION {VisitedExpressions(n.statements[i]) : i \in 1..Len(n.statements)}
      [] n.nodeType = "IfStatement" ->
            VisitedExpressions(n.condition) \cup VisitedExpressions(n.ifBody)
                \cup VisitedExpressions(n.elseBody)
      [] n.nodeType = "LoopStatement" -> VisitedExpressions(n.loopBody)
      [] n.nodeType = "WhileStatement" ->
            VisitedExpressions(n.condition) \cup VisitedExpressions(n.loopBody)
      [] n.nodeType = "VariableDefinition" -> VisitedExpressions(n.initializer)
      [] n.nodeType = "FunctionDefinition" -> VisitedExpressions(n.functionBody)
      [] OTHER -> {}

C7_VisitedExpressionsAreTyped ==
    (aPc = "analyzed" /\ aResult) =>
        \A n \in {m_program.statements[i] : i \in 1..Len(m_program.statements)}
                  \cup {m_program.definitions[i] : i \in 1..Len(m_program.definitions)} :
           \A e \in VisitedExpressions(n) :
              e.expressionType.typeInfo \notin {"nullptr", "Empty"}

(***************************************************************************)
(* C1: for every program, also one with no top-level statements, the list  *)
(* generate returns holds a FunctionDefinition named `main` whose          *)
(* instructions are the lowering of the file's top-level statements, in    *)
(* order, followed by the `return 0` tail.                                 *)
(***************************************************************************)
ReturnZeroTail == <<move(intConst(0), reg("AX", DWord)), ReturnInstruction>>

\* what the top-level statements of gSource lower to in this run
TopLevelLowering ==
    generate(NewCodeGenerator(codeGenerator.argumentOrder, codeGenerator.decoratorRead),
             gSource, gPlatform).mainFunc.instructions

IsMainOf(instruction, lowering) ==
    /\ instruction.type = "FunctionDefinition"
    /\ instruction.name = "main"
    /\ instruction.instructions
          \in {lowering \o ReturnZeroTail,
               validateInstructions(validateInstructions(lowering \o ReturnZeroTail))}

C1_MainHoldsTopLevelStatements ==
    gPc = "generated" =>
        \E i \in 1..Len(codeGenerator.m_instructions) :
            IsMainOf(codeGenerator.m_instructions[i], TopLevelLowering)

(***************************************************************************)
(* C2: after generate has made its two validateInstructions passes, no     *)
(* instruction of any function violates the legalization table: no Move,   *)
(* Add or Sub has two Temp operands, no Mul has a Temp destination, no     *)
(* Compare has a constant or Temp left operand, no Push has an operand     *)
(* that is neither a constant nor QWord, and no Move has a destination     *)
(* larger than its source unless signExtend is set and the destination is  *)
(* a scratch register.                                                     *)
(***************************************************************************)
ScratchRegisters == {"AX", "R10", "R11"}

IsLegal(n) ==
    CASE n.type = "Move" ->
            /\ ~(isTemp(n.source) /\ isTemp(n.destination))
            /\ getSize(n.destination) > getSize(n.source) =>
                  /\ n.signExtend
                  /\ n.destination.type = "Register"
                  /\ n.destination.reg \in ScratchRegisters
      [] n.type \in {"Add", "Subtract"} -> ~(isTemp(n.destination) /\ isTemp(n.other))
      [] n.type = "Multiply" -> ~isTemp(n.destination)
      [] n.type = "Compare" -> n.left.type # "IntegerConstant" /\ ~isTemp(n.left)
      [] n.type = "Push" -> n.src.type = "IntegerConstant" \/ getSize(n.src) = QWord
      [] OTHER -> TRUE

RECURSIVE AllLegal(_)
AllLegal(instructions) ==
    \A i \in 1..Len(instructions) :
       IF instructions[i].type = "FunctionDefinition"
       THEN AllLegal(instructions[i].instructions)
       ELSE IsLegal(instructions[i])

C2_GeneratedInstructionsAreLegal ==
    gPc = "generated" => AllLegal(codeGenerator.m_instructions)

\* the instructions of the functions of a list, one list
RECURSIVE Flatten(_)
Flatten(instructions) ==
    IF instructions = <<>> THEN <<>>
    ELSE (IF Head(instructions).type = "FunctionDefinition"
          THEN Flatten(Head(instructions).instructions)
          ELSE <<Head(instructions)>>) \o Flatten(Tail(instructions))

\* a run whose lowering had each kind of illegal shape: the generated list
\* holds a sign-extending Move, a Multiply through R11, an Add through R10, a
\* Compare through AX and a Push of AX
C2_Witness ==
    /\ gPc = "generated"
    /\ ~AllLegal(generateDefinitions(
                     [NewCodeGenerator(codeGenerator.argumentOrder,
                                       codeGenerator.decoratorRead)
                         EXCEPT !.m_platform = gPlatform],
                     gSource.definitions, <<>>, 1).instructions)
    /\ LET all == Flatten(codeGenerator.m_instructions)
       IN  /\ \E i \in 1..Len(all) : all[i].type = "Move" /\ all[i].signExtend
           /\ \E i \in 1..Len(all) :
                 all[i].type = "Multiply" /\ all[i].destination = reg("R11", DWord)
           /\ \E i \in 1..Len(all) :
                 all[i].type = "Compare" /\ all[i].left = reg("AX", DWord)
           /\ \E i \in 1..Len(all) :
                 all[i].type = "Push" /\ all[i].src = reg("AX", QWord)

(***************************************************************************)
(* C3: the legalizer is idempotent: validateInstructions applied to a list *)
(* validateInstructions has already legalized leaves the list as it is,    *)
(* for every instruction list, also one that holds a Move whose            *)
(* destination is larger than its source.                                  *)
(***************************************************************************)
C3_LegalizerIsIdempotent ==
    lPasses >= 2 => lInstructions = lPrevious

(***************************************************************************)
(* C11: for arithmetic, comparison and equality operators op1, op2 where   *)
(* op2 has the strictly higher binding power, `a op1 b op2 c` parses as    *)
(* `a op1 (b op2 c)` and `a op2 b op1 c` as `(a op2 b) op1 c`; the operand *)
(* of a prefix unary operator ends before every binary operator except     *)
(* member access, which it includes.                                       *)
(***************************************************************************)
PrecedenceTypes ==
    {"STAR", "SLASH", "PLUS", "MINUS", "GREATER", "LESS", "GREATER_EQUAL", "LESS_EQUAL",
     "EQUAL_EQUAL", "BANG_EQUAL"}

\* the statement list `x op y op z ;` is the token list `operand op operand op operand ; EOF`
IsTwoInfixStream(tokens) ==
    /\ Len(tokens) = 7
    /\ \A i \in {1, 3, 5} : tokens[i].type = "IDENTIFIER"
    /\ \A i \in {2, 4} : tokens[i].type \in PrecedenceTypes

\* `- y op z ;`
IsUnaryInfixStream(tokens) ==
    /\ Len(tokens) = 6
    /\ tokens[1].type = "MINUS"
    /\ tokens[2].type = "IDENTIFIER"
    /\ tokenBindingPower(tokens[3]) > 0
    /\ tokens[4].type = "IDENTIFIER"

RightNested(tokens) ==
    BinaryOperation(Identifier(tokens[1]), tokens[2],
                    BinaryOperation(Identifier(tokens[3]), tokens[4], Identifier(tokens[5])))

LeftNested(tokens) ==
    BinaryOperation(BinaryOperation(Identifier(tokens[1]), tokens[2], Identifier(tokens[3])),
                    tokens[4], Identifier(tokens[5]))

\* the node led builds for the infix token from the two operands
InfixNode(l, token, r) ==
    CASE token.type = "EQUAL" -> Assignment(l, token, r)
      [] token.type \in {"DOT", "ARROW"} -> MemberAccess(l, token, r)
      [] OTHER -> BinaryOperation(l, token, r)

C11_HigherPowerBindsTighter ==
    pPc = "parsed" =>
        /\ IsTwoInfixStream(pTokens) =>
              /\ tokenBindingPower(pTokens[4]) > tokenBindingPower(pTokens[2]) =>
                    /\ pResult
                    /\ m_programFile.statements
                          = <<ExpressionStatement(RightNested(pTokens))>>
              /\ tokenBindingPower(pTokens[2]) > tokenBindingPower(pTokens[4]) =>
                    /\ pResult
                    /\ m_programFile.statements
                          = <<ExpressionStatement(LeftNested(pTokens))>>
        /\ IsUnaryInfixStream(pTokens) =>
              LET operand == expressionUnary(
                                 [tokens |-> pTokens, idx |-> 1, errors |-> <<>>], pTokens[1])
              IN  IF pTokens[3].type \in {"DOT", "ARROW"}
                  THEN /\ operand.node
                            = UnaryOperation(pTokens[1],
                                  MemberAccess(Identifier(pTokens[2]), pTokens[3],
                                               Identifier(pTokens[4])))
                       /\ m_programFile.statements = <<ExpressionStatement(operand.node)>>
                  ELSE /\ operand.node = UnaryOperation(pTokens[1], Identifier(pTokens[2]))
                       /\ currentToken(operand.p) = pTokens[3]
                       /\ pTokens[3].type \notin {"AND", "OR"} =>
                             m_programFile.statements
                                = <<ExpressionStatement(
                                      InfixNode(operand.node, pTokens[3],
                                                Identifier(pTokens[4])))>>

\* `a + b * c ;` has been parsed as `a + (b * c)`
C11_Witness ==
    /\ pPc = "parsed"
    /\ IsTwoInfixStream(pTokens)
    /\ pTokens[2].type = "PLUS"
    /\ pTokens[4].type = "STAR"
    /\ m_programFile.statements = <<ExpressionStatement(RightNested(pTokens))>>

(***************************************************************************)
(* C12: whenever Lexer::analyze returns success, for every file content    *)
(* (also the empty file), the last token of the list is SPECIAL_EOF and no *)
(* earlier token is.                                                       *)
(***************************************************************************)
C12_TokenListEndsWithEof ==
    (lxPc = "analyzed" /\ lxResult) =>
        /\ Len(lexer.m_tokens) > 0
        /\ lexer.m_tokens[Len(lexer.m_tokens)].type = "SPECIAL_EOF"
        /\ \A i \in 1..(Len(lexer.m_tokens) - 1) : lexer.m_tokens[i].type # "SPECIAL_EOF"

(***************************************************************************)
(* C13: for every punctuation, number, name, string and character token    *)
(* of a successful run, the characters of the source from                  *)
(* position.startIndex through position.endIndex are the token's lexeme    *)
(* (for a string or character literal: its value between its quotes).      *)
(***************************************************************************)
RECURSIVE Concatenate(_)
\* the string made of the characters of the sequence
Concatenate(characters) ==
    IF characters = <<>> THEN ""
    ELSE Head(characters) \o Concatenate(Tail(characters))

\* source[startIndex..=endIndex], indices counted from 0
SourceSlice(source, position) ==
    Concatenate([k \in 1..(position.endIndex - position.startIndex + 1) |->
                    IF position.startIndex + k <= Len(source)
                    THEN source[position.startIndex + k] ELSE Nul])

TokenLexeme(token) ==
    CASE token.type = "STRING_LITERAL" -> "\"" \o token.value \o "\""
      [] token.type = "CHARACTER_LITERAL" -> "'" \o token.value \o "'"
      [] OTHER -> token.value

C13_PositionSpansLexeme ==
    (lxPc = "analyzed" /\ lxResult) =>
        \A i \in 1..Len(lexer.m_tokens) :
            lexer.m_tokens[i].type \notin {"SPECIAL_EOF", "SPECIAL_ERROR"} =>
                SourceSlice(lexer.m_sourceCode, lexer.m_tokens[i].position)
                    = TokenLexeme(lexer.m_tokens[i])

(***************************************************************************)
(* C14: analyze returns true iff it appended no error to the ErrorHandler; *)
(* the warnings it reports (unused expression statement, parameter         *)
(* shadowing a global) neither make it return false nor make hasErrors     *)
(* true.                                                                   *)
(***************************************************************************)
C14_SuccessIffNoErrors ==
    aPc = "analyzed" => (aResult <=> analyzer.errors = <<>>)

\* a run that reported both warnings and returned true
C14_Witness ==
    /\ aPc = "analyzed"
    /\ aResult
    /\ analyzer.errors = <<>>
    /\ \E i, j \in 1..Len(analyzer.warnings) :
          /\ analyzer.warnings[i] = "Unused expression"
          /\ analyzer.warnings[j] = "Parameter 'a' shadows a global name"

(***************************************************************************)
(* C15: every FunctionDefinition instruction generate builds, the `main`   *)
(* it builds for the top-level statements included, has a stackAlloc that  *)
(* is at least every positive Temp offset used in its instruction list.    *)
(***************************************************************************)
OperandsOf(n) ==
    CASE n.type = "Move" -> {n.source, n.destination}
      [] n.type \in {"Negate", "BitwiseNot"} -> {n.source}
      [] n.type \in {"Add", "Subtract", "Multiply"} -> {n.destination, n.other}
      [] n.type = "Compare" -> {n.left, n.right}
      [] n.type \in {"Set", "Divide"} -> {n.destination}
      [] n.type = "Push" -> {n.src}
      [] OTHER -> {}

\* the positive stack offsets the Temp operands of a function's list use
PositiveTempOffsets(function) ==
    UNION {{o.stackOffest : o \in {t \in OperandsOf(function.instructions[i]) :
                                       isTemp(t) /\ t.stackOffest > 0}} :
              i \in 1..Len(function.instructions)}

StackAllocCovers(function) ==
    \A offset \in PositiveTempOffsets(function) : function.stackAlloc >= offset

\* the FunctionDefinition instructions of the list generate returned
GeneratedFunctions ==
    {codeGenerator.m_instructions[i] :
        i \in {j \in 1..Len(codeGenerator.m_instructions) :
                  codeGenerator.m_instructions[j].type = "FunctionDefinition"}}

\* the `main` this run of generate built
SynthesizedMain ==
    generate(NewCodeGenerator(codeGenerator.argumentOrder, codeGenerator.decoratorRead),
             gSource, gPlatform).mainFunc

C15_StackAllocCoversTemps ==
    gPc = "generated" =>
        \A function \in GeneratedFunctions \cup {SynthesizedMain} :
            StackAllocCovers(function)

\* the functions of the returned list alone
C15_DefinedFunctionsCovered ==
    gPc = "generated" =>
        \A function \in GeneratedFunctions :
            /\ StackAllocCovers(function)
            /\ PositiveTempOffsets(function) # {} =>
                  \E offset \in PositiveTempOffsets(function) : offset = function.stackAlloc

C15_DefinedFunctionsWitness ==
    /\ gPc = "generated"
    /\ \E function \in GeneratedFunctions : function.stackAlloc >= 2 * DWord

(***************************************************************************)
(* C16: the instruction list evaluates the left operand of every binary    *)
(* operator before the right one, and argument i of a call before argument *)
(* i + 1, for every number of arguments: the calls k(v) of a function body *)
(* appear in the function's list in the order of the source, left to right.*)
(***************************************************************************)
RECURSIVE JoinLists(_)
\* the lists of a list of lists, one after the other
JoinLists(lists) ==
    IF lists = <<>> THEN <<>> ELSE Head(lists) \o JoinLists(Tail(lists))

RECURSIVE SourceCallOrder(_)
\* the constants v of the calls k(v) of an expression, left to right
SourceCallOrder(e) ==
    CASE e.nodeType = "BinaryOperation" ->
            SourceCallOrder(e.left) \o SourceCallOrder(e.right)
      [] e.nodeType = "UnaryOperation" -> SourceCallOrder(e.expression)
      [] e.nodeType = "Call" ->
            IF e.funcToken.value = "k"
            THEN <<e.argumentList[1].value>>
            ELSE JoinLists([i \in 1..Len(e.argumentList) |->
                               SourceCallOrder(e.argumentList[i])])
      [] OTHER -> <<>>

\* the constants last moved into the first argument register before each
\* Call of k in an instruction list, in the order of the list; `last` where
\* none was moved yet
ListCallOrder(instructions, platform, last) ==
    LET first == reg(argumentRegisters(platform)[1], DWord)
        Loads(p) == instructions[p].type = "Move" /\ instructions[p].destination = first
                        /\ instructions[p].source.type = "IntegerConstant"
        CallsK(p) == instructions[p].type = "Call"
                         /\ instructions[p].func = calleeName(platform, NameToken("k"))
        calls == SelectSeq([p \in 1..Len(instructions) |-> p], CallsK)
        LoadedAt(p) ==
            LET loads == {q \in 1..(p - 1) : Loads(q)}
            IN  IF loads = {} THEN last
                ELSE instructions[CHOOSE q \in loads : \A r \in loads : r <= q].source.integer
    IN  [c \in 1..Len(calls) |-> LoadedAt(calls[c])]

\* the bodies that are one expression statement
IsExpressionBody(d) ==
    /\ d.nodeType = "FunctionDefinition"
    /\ d.functionBody.nodeType = "CompoundStatement"
    /\ Len(d.functionBody.statements) = 1
    /\ d.functionBody.statements[1].nodeType = "ExpressionStatement"

OrderKept(d) ==
    \A function \in GeneratedFunctions :
        function.name = d.nameToken.value =>
            ListCallOrder(function.instructions, gPlatform, 0)
                = SourceCallOrder(d.functionBody.statements[1].expression)

C16_OperandsLeftToRight ==
    gPc = "generated" =>
        \A i \in 1..Len(gSource.definitions) :
            IsExpressionBody(gSource.definitions[i]) => OrderKept(gSource.definitions[i])

\* the same with division, relational operators and calls with stack arguments left out
C16_OtherOperatorsLeftToRight ==
    gPc = "generated" =>
        \A i \in 1..Len(gSource.definitions) :
            LET d == gSource.definitions[i]
            IN  IsExpressionBody(d) =>
                   LET e == d.functionBody.statements[1].expression
                   IN  \/ /\ e.nodeType = "BinaryOperation"
                          /\ e.operatorToken.type \in {"SLASH", "LESS", "EQUAL_EQUAL"}
                       \/ /\ e.nodeType = "Call"
                          /\ Len(e.argumentList) > Len(argumentRegisters(gPlatform)) + 1
                       \/ OrderKept(d)

C16_OtherOperatorsWitness ==
    /\ gPc = "generated"
    /\ \E i \in 1..Len(gSource.definitions) :
          LET d == gSource.definitions[i]
          IN  /\ IsExpressionBody(d)
              /\ d.functionBody.statements[1].expression.nodeType = "BinaryOperation"
              /\ d.functionBody.statements[1].expression.operatorToken.type = "PLUS"
              /\ SourceCallOrder(d.functionBody.statements[1].expression) = <<1, 2>>

(***************************************************************************)
(* C18: emit is a pure function of its arguments: the string a call of     *)
(* emit returns is the string emit returns for the same instruction list,  *)
(* externals and platform on a new emitter, whatever calls of emit were    *)
(* made on the object before.                                              *)
(***************************************************************************)
C18_EmitIsPure ==
    eCalls > 0 =>
        eResult = output(emit(NewEmitter, eInstructions, eExternals, ePlatform))

\* the first call on an object
C18_FirstEmit ==
    eCalls = 1 =>
        eResult = output(emit(NewEmitter, eInstructions, eExternals, ePlatform))

C18_FirstEmitWitness ==
    /\ eCalls = 1
    /\ eInstructions = <<EveryInstruction, ReturnZero>>
    /\ ePlatform = "Mac"

(***************************************************************************)
(* C17: in buildProject the stages run in the order lex, parse, analyze,   *)
(* generate, emit, and a stage has run only if every earlier stage         *)
(* returned success; when lexing, parsing or analysis fails no later stage *)
(* has run, no assembly file is written and the build returns failure.     *)
(***************************************************************************)
C17_StagesInOrder ==
    build.pc \notin {"off", "undefined"} =>
        /\ build.stages.parse # NotRun => build.stages.lex = "success"
        /\ build.stages.analyze # NotRun => build.stages.parse = "success"
        /\ build.stages.generate # NotRun => build.stages.analyze = "success"
        /\ build.stages.emit # NotRun => build.stages.generate = "run"
        /\ build.asmFile.written => build.stages.emit = "run"
        /\ build.returned = "true" => build.asmFile.written
        /\ "failure" \in {build.stages.lex, build.stages.parse, build.stages.analyze} =>
              /\ build.pc = "returned"
              /\ build.returned = "false"
              /\ ~build.asmFile.written

\* a build that the parser failed: the lexer had returned success, and the
\* analyzer, the generator and the emitter did not run
C17_Witness ==
    /\ build.pc = "returned"
    /\ build.stages.lex = "success"
    /\ build.stages.parse = "failure"
    /\ build.stages.analyze = NotRun
    /\ build.returned = "false"

\* builds the lexer failed, the analysis failed, and builds that wrote the file
C17_LexFails == build.pc = "returned" /\ build.stages.lex = "failure" /\ bFileExists

C17_AnalysisFails == build.pc = "returned" /\ build.stages.analyze = "failure"

C17_Builds ==
    /\ build.pc = "returned"
    /\ build.returned = "true"
    /\ build.asmFile.written
    /\ build.program.statements # <<>>

(***************************************************************************)
(* C19: when the code lowered for `x and y` or `x or y` has run, its       *)
(* destination holds 1 exactly when, for `and`, both operands are non-zero *)
(* and, for `or`, at least one is non-zero, and 0 otherwise, for all       *)
(* operand values; no instruction of the right operand has been executed   *)
(* when the left operand alone decides the result.                         *)
(***************************************************************************)
RECURSIVE ValueOf(_)
\* the value of a literal or of its negation
ValueOf(e) ==
    IF e.nodeType = "UnaryOperation" THEN -ValueOf(e.expression) ELSE e.value

\* generateLogical on the expression, as generateFunctionDefinition reaches it
LogicalLowering ==
    generateLogical([NewCodeGenerator("LeftToRight", "Other") EXCEPT !.m_currentStackIndex = 0],
                    mExpression, <<>>)

\* the instructions generateExpression lowers the right operand to there
RightOperandInstructions ==
    LET a == allocateStack(NewCodeGenerator("LeftToRight", "Other"), DWord)
        c == generateComparisonIndex(a.g)
        l == generateExpression(c.g, mExpression.left, <<>>)
        r == generateExpression(l.g, mExpression.right, <<>>)
    IN  {r.instructions[i] : i \in 1..Len(r.instructions)}

LeftDecides ==
    IF mExpression.operatorToken.type = "AND"
    THEN ValueOf(mExpression.left) = 0
    ELSE ValueOf(mExpression.left) # 0

LogicalValue ==
    IF mExpression.operatorToken.type = "AND"
    THEN IF ValueOf(mExpression.left) # 0 /\ ValueOf(mExpression.right) # 0 THEN 1 ELSE 0
    ELSE IF ValueOf(mExpression.left) # 0 \/ ValueOf(mExpression.right) # 0 THEN 1 ELSE 0

LogicalHolds ==
    /\ operandValue(machine, LogicalLowering.operand) = LogicalValue
    /\ LeftDecides =>
          \A i \in machine.executed : mInstructions[i] \notin RightOperandInstructions

C19_LogicalWritesTruthValue ==
    (machine.halted /\ mExpression \in LogicalExpressions) => LogicalHolds

\* the same for `and` alone, and for `or` on operands that are 0 or 1
C19_AndWritesTruthValue ==
    (machine.halted /\ mExpression \in LogicalExpressions
        /\ (\/ mExpression.operatorToken.type = "AND"
            \/ {ValueOf(mExpression.left), ValueOf(mExpression.right)} \subseteq {0, 1}))
    => LogicalHolds

\* an `and` whose left operand is zero and whose right operand has instructions
C19_AndWitness ==
    /\ machine.halted
    /\ mExpression.nodeType = "BinaryOperation"
    /\ mExpression.operatorToken.type = "AND"
    /\ LeftDecides
    /\ RightOperandInstructions # {}
    /\ machine.temps[LogicalLowering.operand.stackOffest] = 0

(***************************************************************************)
(* C20: at a call site that begins with SP a multiple of 16, for every     *)
(* number of arguments and both platforms, SP is a multiple of 16 right    *)
(* after the Call has pushed its return address: the padding generateCall  *)
(* subtracts and the 8-byte pushes of the stack arguments add up to that.  *)
(***************************************************************************)
IsAligned(m) == m.registers["SP"] % 16 = 0

C20_AlignedAfterCall == machine.calling => IsAligned(machine)

\* the calls whose argument count is even or that push an odd number of
\* stack arguments
C20_EvenCountAligned ==
    (/\ machine.calling
     /\ \A i \in 1..Len(mExpression.argumentList) :
           mExpression.argumentList[i].nodeType = "IntegerLiteral"
     /\ LET count == Len(mExpression.argumentList)
            stackArgs == IF count > Len(argumentRegisters(mPlatform))
                         THEN count - Len(argumentRegisters(mPlatform)) ELSE 0
        IN  (count + stackArgs) % 2 = 0)
    => IsAligned(machine)

C20_EvenCountWitness ==
    /\ machine.calling
    /\ mPlatform = "Win"
    /\ Len(mExpression.argumentList) = 6
    /\ machine.registers["SP"] = StackTop - 64

(***************************************************************************)
(* C21: when a call that passes more arguments than there are argument     *)
(* registers has pushed its return address, the address rbp + 8 * (i -     *)
(* |registers| + 2) that generateFunctionDefinition binds to stack         *)
(* parameter i of the callee holds the value of argument i, on both        *)
(* platforms; rbp is SP after the callee's `push rbp`.                     *)
(***************************************************************************)
\* what generateFunctionDefinition binds the parameters of h to
CalleeBindings ==
    generateFunctionDefinition(
        [NewCodeGenerator("LeftToRight", "Other") EXCEPT !.m_platform = mPlatform],
        CalleeH(Len(mExpression.argumentList)), <<>>).g.m_localVarMap

\* the address `[rbp - offset]` of a Temp once the callee has run `push rbp; mov rbp, rsp`
CalleeAddress(operand) == (machine.registers["SP"] - QWord) - operand.stackOffest

IsStackCall ==
    /\ machine.calling
    /\ Len(mExpression.argumentList) > Len(argumentRegisters(mPlatform))
    /\ \A i \in 1..Len(mExpression.argumentList) :
          mExpression.argumentList[i].nodeType = "IntegerLiteral"

C21_StackArgumentsAgree ==
    IsStackCall =>
        \A i \in (Len(argumentRegisters(mPlatform)) + 1)..Len(mExpression.argumentList) :
            /\ CalleeAddress(CalleeBindings[ParameterName(i)]) \in StackAddresses
            /\ machine.stack[CalleeAddress(CalleeBindings[ParameterName(i)])]
                  = mExpression.argumentList[i].value

\* a call on Win with four stack arguments whose values differ
C21_Witness ==
    /\ IsStackCall
    /\ mPlatform = "Win"
    /\ Len(mExpression.argumentList) = 8
    /\ mExpression.argumentList[8].value = 8
    /\ machine.stack[machine.registers["SP"] + QWord] = 5

(***************************************************************************)
(* C22: for every call expression, also one whose arguments are calls, SP  *)
(* after the call-site sequence is SP before it: what `sub SP, padding`    *)
(* and the pushes of the stack arguments take, the final `add SP` gives    *)
(* back.  The function that holds the call ends with SP where it began.    *)
(***************************************************************************)
C22_StackPointerRestored ==
    (machine.halted /\ mExpression.nodeType = "Call") => machine.registers["SP"] = StackTop

\* a call on Win whose arguments are calls, four of them pushed
C22_Witness ==
    /\ machine.halted
    /\ mExpression.nodeType = "Call"
    /\ mPlatform = "Win"
    /\ Len(mExpression.argumentList) = 8
    /\ mExpression.argumentList[8].nodeType = "Call"
    /\ machine.stack[StackTop - 9 * QWord] = 0

(***************************************************************************)
(* C23: in every nesting of loop and while statements each break lowers to *)
(* an unconditional Jump to the exit label of the innermost loop around    *)
(* it and each continue to that loop's start label, also for a break or    *)
(* continue that follows an inner loop in the outer body.  A loop is the   *)
(* stretch of the list from its start label to its exit label.             *)
(***************************************************************************)
MaxLabelIndex == 8

LoopNumbers == 1..MaxLabelIndex

StartLabel(n) == ".LS" \o ToString(n)

ExitLabel(n) == ".LE" \o ToString(n)

LabelPositions(l, name) == {p \in 1..Len(l) : l[p] = label(name)}

\* position j lies between the start label and the exit label of loop n
InsideLoop(l, n, j) ==
    \E p \in LabelPositions(l, StartLabel(n)), q \in LabelPositions(l, ExitLabel(n)) :
        p < j /\ j < q

\* the loops around loop n, and n
LoopDepth(l, n) ==
    Cardinality({m \in LoopNumbers :
                    \/ m = n
                    \/ \E p \in LabelPositions(l, StartLabel(n)) : InsideLoop(l, m, p)})

\* the Jump that ends a loop body is the one right before the exit label
IsBackJump(l, j) ==
    /\ j < Len(l)
    /\ \E n \in LoopNumbers : l[j].label = StartLabel(n) /\ l[j + 1] = label(ExitLabel(n))

IsBreakJump(l, j) ==
    /\ l[j].type = "Jump"
    /\ l[j].comparison = "None"
    /\ \E n \in LoopNumbers : l[j].label = ExitLabel(n)

IsContinueJump(l, j) ==
    /\ l[j].type = "Jump"
    /\ l[j].comparison = "None"
    /\ \E n \in LoopNumbers : l[j].label = StartLabel(n)
    /\ ~IsBackJump(l, j)

TargetLoop(l, j) ==
    CHOOSE n \in LoopNumbers : l[j].label \in {StartLabel(n), ExitLabel(n)}

TargetsInnermost(l) ==
    \A j \in 1..Len(l) :
        (IsBreakJump(l, j) \/ IsContinueJump(l, j)) =>
            /\ InsideLoop(l, TargetLoop(l, j), j)
            /\ \A m \in LoopNumbers :
                   InsideLoop(l, m, j) => LoopDepth(l, m) <= LoopDepth(l, TargetLoop(l, j))

\* the breaks and continues of a list from position j on in its order, each
\* with the depth of the loop it jumps to
ListExits(l, j) ==
    LET IsExit(p) == p >= j /\ (IsBreakJump(l, p) \/ IsContinueJump(l, p))
        exits == SelectSeq([p \in 1..Len(l) |-> p], IsExit)
    IN  [k \in 1..Len(exits) |->
            <<IF IsBreakJump(l, exits[k]) THEN "break" ELSE "continue",
              LoopDepth(l, TargetLoop(l, exits[k]))>>]

RECURSIVE SourceExits(_, _)
\* the breaks and continues of a statement in source order, each with the
\* number of loops around it
SourceExits(n, depth) ==
    CASE n.nodeType = "CompoundStatement" ->
            JoinLists([i \in 1..Len(n.statements) |-> SourceExits(n.statements[i], depth)])
      [] n.nodeType = "IfStatement" ->
            SourceExits(n.ifBody, depth)
            \o (IF n.elseBody = NullNode THEN <<>> ELSE SourceExits(n.elseBody, depth))
      [] n.nodeType \in {"LoopStatement", "WhileStatement"} -> SourceExits(n.loopBody, depth + 1)
      [] n.nodeType = "BreakStatement" -> <<<<"break", depth>>>>
      [] n.nodeType = "ContinueStatement" -> <<<<"continue", depth>>>>
      [] OTHER -> <<>>

SourceFunctions ==
    {gSource.definitions[i] :
        i \in {j \in 1..Len(gSource.definitions) :
                  gSource.definitions[j].nodeType = "FunctionDefinition"}}

C23_ExitsTargetInnermostLoop ==
    gPc = "generated" =>
        \A d \in SourceFunctions, function \in GeneratedFunctions :
            function.name = d.nameToken.value =>
                /\ TargetsInnermost(function.instructions)
                /\ ListExits(function.instructions, 1) = SourceExits(d.functionBody, 0)

\* a break after an inner loop that holds a continue, in a while loop
C23_Witness ==
    /\ gPc = "generated"
    /\ \E d \in SourceFunctions, function \in GeneratedFunctions :
          /\ function.name = d.nameToken.value
          /\ SourceExits(d.functionBody, 0) = <<<<"continue", 2>>, <<"break", 1>>>>
          /\ \E j \in 1..Len(function.instructions) :
                /\ IsBreakJump(function.instructions, j)
                /\ function.instructions[j].label = ExitLabel(1)
                /\ d.functionBody.statements[1].nodeType = "WhileStatement"

(***************************************************************************)
(* C24: in every function's instruction list, whatever ifs, if/elses,      *)
(* loops, whiles and logical operations it lowers, every Jump targets a    *)
(* label whose name begins with `.` and that exactly one Label instruction *)
(* of that same function defines.                                          *)
(***************************************************************************)
\* the names the lowering forms from a dot, two letters and an index
DotLabels ==
    {prefix \o ToString(n) :
        prefix \in {".IF", ".IT", ".IE", ".LS", ".LE", ".CF", ".CT", ".CE"},
        n \in 1..MaxLabelIndex}

JumpsOf(l) == {j \in 1..Len(l) : l[j].type = "Jump"}

JumpsResolve(l) ==
    \A j \in JumpsOf(l) :
        /\ l[j].label \in DotLabels
        /\ Cardinality(LabelPositions(l, l[j].label)) = 1

C24_JumpsResolveInFunction ==
    gPc = "generated" => \A function \in GeneratedFunctions : JumpsResolve(function.instructions)

\* two functions of one program, each with jumps of a loop and an if/else,
\* one of them with a logical operation too
C24_Witness ==
    /\ gPc = "generated"
    /\ \E f \in GeneratedFunctions, g \in GeneratedFunctions :
          /\ f.name = "f"
          /\ g.name = "g"
          /\ \E j \in JumpsOf(f.instructions) : f.instructions[j].label = ".CT1"
          /\ \E j \in JumpsOf(f.instructions) : f.instructions[j].label = ".IF5"
          /\ \E j \in JumpsOf(g.instructions) : g.instructions[j].label = ".IF2"
          /\ \E j \in JumpsOf(f.instructions) : IsBreakJump(f.instructions, j)

(***************************************************************************)
(* C25: a scratch register the legalizer writes never holds a value that   *)
(* an instruction after the inserted Move still reads; rewriting           *)
(* `Compare L, R` into `Move L, AX; Compare AX, R` does not overwrite an   *)
(* AX that holds the result of a division.  The legalized list of a        *)
(* comparison then leaves in the comparison's destination what the list    *)
(* before legalization leaves there.                                       *)
(***************************************************************************)
\* the instructions of the function before generate's two passes
UnlegalizedFunction(e, platform) ==
    generateFunctionDefinition(
        [NewCodeGenerator("LeftToRight", "Other") EXCEPT !.m_platform = platform],
        FunctionOf(e), <<>>).instructions[1].instructions

RECURSIVE Run(_, _)
\* the machine run to the end of a list without calls
Run(m, l) == IF m.halted \/ m.pc > Len(l) THEN m ELSE Run(execute(m, l), l)

\* generateRelational on the expression, as generateFunctionDefinition reaches it
RelationalLowering ==
    generateRelational([NewCodeGenerator("LeftToRight", "Other") EXCEPT !.m_currentStackIndex = 0],
                       mExpression, <<>>)

IsQuotient(e) == e.nodeType = "BinaryOperation" /\ e.operatorToken.type = "SLASH"

LegalizedAgrees ==
    operandValue(machine, RelationalLowering.operand)
        = operandValue(Run(NewMachine(0), UnlegalizedFunction(mExpression, mPlatform)),
                       RelationalLowering.operand)

C25_ScratchNeverLive ==
    (machine.halted /\ mExpression \in RelationalExpressions) => LegalizedAgrees

\* the same where no operand is a quotient
C25_ScratchFreeOfQuotient ==
    (machine.halted /\ mExpression \in RelationalExpressions
        /\ ~IsQuotient(mExpression.left) /\ ~IsQuotient(mExpression.right))
    => LegalizedAgrees

C25_ScratchFreeWitness ==
    /\ machine.halted
    /\ mExpression = Infix(Infix(IntegerLiteral(1), "LESS", IntegerLiteral(MaxOperand)), "LESS",
                           IntegerLiteral(MaxOperand))
    /\ operandValue(machine, RelationalLowering.operand) = 1

(***************************************************************************)
(* C26: Lexer::analyze terminates on every source text.  Skipping a `//`   *)
(* comment stops at the end of the line, an unterminated `/* */` comment   *)
(* or string literal that runs to the end of the input ends the scan: the  *)
(* call returns with the index at most one past the end of the source,     *)
(* with no more tokens than characters, and at the end of the input or at  *)
(* an error.                                                               *)
(***************************************************************************)
ScanEnded ==
    /\ lxPc = "analyzed"
    /\ lexer.m_currentSourceIndex <= Len(lexer.m_sourceCode) + 1
    /\ Len(lexer.m_tokens) <= Len(lexer.m_sourceCode)
    /\ currentCharacter(lexer) = Nul \/ hasLexerErrors(lexer)

C26_AnalyzeTerminates == lxPc # "ready" => ScanEnded

\* a `//` comment, an open `/*` comment and an open string as the last line
C26_Witness ==
    /\ ScanEnded
    /\ lxContent \in {<<"/", "/", "a">>, <<"/", "*", "a">>, <<"\"", "a", "a">>}
    /\ lexer.m_currentSourceIndex >= Len(lxContent)

(***************************************************************************)
(* C27: the unique-name counter and the loop-id counter start from their   *)
(* initial value at the beginning of every compilation: analyzing the same *)
(* program twice in one process, with new or reused analyzer objects,      *)
(* yields the same unique names and the same loop ids both times.          *)
(***************************************************************************)
C27_SameNamesBothTimes ==
    (Len(rPrograms) = MaxCompilations /\ rPc = "ready") =>
        rPrograms[1].program = rPrograms[MaxCompilations].program

\* the same for the programs whose analysis draws no unique name and no loop id
C27_SameWithoutCounters ==
    (Len(rPrograms) = MaxCompilations /\ rPc = "ready" /\ rObject = "fresh"
        /\ rAnalyzer.index = 0 /\ rAnalyzer.loopIndex = 0) =>
        rPrograms[1].program = rPrograms[MaxCompilations].program

C27_SameWithoutCountersWitness ==
    /\ Len(rPrograms) = MaxCompilations
    /\ rPc = "ready"
    /\ rObject = "fresh"
    /\ rAnalyzer.index = 0
    /\ rPrograms[MaxCompilations].result
    /\ rSource.statements # <<>>

(***************************************************************************)
(* C28: after generate the externals list holds exactly the names of the   *)
(* definitions decorated `External`, each once, and no FunctionDefinition  *)
(* instruction exists for them; an undecorated function definition appends *)
(* exactly one FunctionDefinition instruction and leaves the externals     *)
(* list unchanged.                                                         *)
(***************************************************************************)
RECURSIVE ExternalNames(_)
\* the names of the definitions decorated External, in the order of the program
ExternalNames(definitions) ==
    IF definitions = <<>> THEN <<>>
    ELSE (IF Head(definitions).nodeType = "DecoratedDefinition"
             /\ Head(definitions).decorator = "External"
          THEN <<Head(definitions).definition.nameToken.value>>
          ELSE <<>>)
         \o ExternalNames(Tail(definitions))

RECURSIVE UndecoratedNames(_)
UndecoratedNames(definitions) ==
    IF definitions = <<>> THEN <<>>
    ELSE (IF Head(definitions).nodeType = "FunctionDefinition"
          THEN <<Head(definitions).nameToken.value>>
          ELSE <<>>)
         \o UndecoratedNames(Tail(definitions))

RECURSIVE FunctionNames(_)
\* the names of the FunctionDefinition instructions of a list, in its order
FunctionNames(instructions) ==
    IF instructions = <<>> THEN <<>>
    ELSE (IF Head(instructions).type = "FunctionDefinition" THEN <<Head(instructions).name>>
          ELSE <<>>)
         \o FunctionNames(Tail(instructions))

ExternalsExact ==
    /\ codeGenerator.m_externals = ExternalNames(gSource.definitions)
    /\ FunctionNames(codeGenerator.m_instructions) = UndecoratedNames(gSource.definitions)

C28_ExternalsExact == gPc \in {"generated", "undefined"} => ExternalsExact

\* the same for the runs in which the decorator read through the undecorated
\* definition is not External
C28_ExternalsExactDefined == gPc = "generated" => ExternalsExact

C28_ExternalsExactDefinedWitness ==
    /\ gPc = "generated"
    /\ codeGenerator.m_externals = <<"h">>
    /\ FunctionNames(codeGenerator.m_instructions) = <<"f">>

(***************************************************************************)
(* C29: a local name is visible only inside the scope that defines it.     *)
(* After the compound statement or function that defines a local or a      *)
(* parameter has been analyzed, a later reference to the name reports      *)
(* `Undefined name` unless a scope that is still open or the global table  *)
(* defines it, and after a successful analyze the local scope stack is     *)
(* empty.  The names a program uses out of scope are found by a walk of    *)
(* the source that opens a scope at every function and compound statement. *)
(***************************************************************************)
RECURSIVE NamesIn(_)
\* the names an expression refers to
NamesIn(e) ==
    CASE e.nodeType = "Identifier" -> {e.idToken.value}
      [] e.nodeType \in {"BinaryOperation", "Assignment"} -> NamesIn(e.left) \cup NamesIn(e.right)
      [] e.nodeType = "UnaryOperation" -> NamesIn(e.expression)
      [] e.nodeType = "Call" ->
            {e.funcToken.value}
            \cup UNION {NamesIn(e.argumentList[i]) : i \in 1..Len(e.argumentList)}
      [] e.nodeType = "ArrayList" -> UNION {NamesIn(e.elements[i]) : i \in 1..Len(e.elements)}
      [] OTHER -> {}

VisibleNames(scopes, globals) == globals \cup UNION {scopes[i] : i \in 1..Len(scopes)}

RECURSIVE ScopeStatement(_, _, _)
RECURSIVE ScopeStatements(_, _, _, _)
\* the open scopes after a statement and the names it uses that no open
\* scope and no global defines
ScopeStatement(n, scopes, globals) ==
    CASE n.nodeType = "VariableDefinition" ->
            LET defined == [scopes EXCEPT ![Len(scopes)] = @ \cup {n.nameToken.value}]
            IN  [scopes |-> defined,
                 bad |-> NamesIn(n.initializer) \ VisibleNames(defined, globals)]
      [] n.nodeType = "CompoundStatement" ->
            [scopes |-> scopes,
             bad |-> ScopeStatements(n.statements, 1, Append(scopes, {}), globals).bad]
      [] n.nodeType \in {"ExpressionStatement", "ReturnStatement"} ->
            [scopes |-> scopes, bad |-> NamesIn(n.expression) \ VisibleNames(scopes, globals)]
      [] n.nodeType = "IfStatement" ->
            [scopes |-> scopes,
             bad |-> (NamesIn(n.condition) \ VisibleNames(scopes, globals))
                     \cup ScopeStatement(n.ifBody, scopes, globals).bad
                     \cup (IF n.elseBody = NullNode THEN {}
                           ELSE ScopeStatement(n.elseBody, scopes, globals).bad)]
      [] n.nodeType = "WhileStatement" ->
            [scopes |-> scopes,
             bad |-> (NamesIn(n.condition) \ VisibleNames(scopes, globals))
                     \cup ScopeStatement(n.loopBody, scopes, globals).bad]
      [] n.nodeType = "LoopStatement" ->
            [scopes |-> scopes, bad |-> ScopeStatement(n.loopBody, scopes, globals).bad]
      [] OTHER -> [scopes |-> scopes, bad |-> {}]

ScopeStatements(statements, i, scopes, globals) ==
    IF i > Len(statements) THEN [scopes |-> scopes, bad |-> {}]
    ELSE LET first == ScopeStatement(statements[i], scopes, globals)
             rest == ScopeStatements(statements, i + 1, first.scopes, globals)
         IN  [scopes |-> rest.scopes, bad |-> first.bad \cup rest.bad]

RECURSIVE ScopeDefinitions(_, _, _)
\* the global names after the definitions and the names used out of scope in them
ScopeDefinitions(definitions, i, globals) ==
    IF i > Len(definitions) THEN [globals |-> globals, bad |-> {}]
    ELSE LET d == definitions[i]
             defined == globals \cup {d.nameToken.value}
             bad == IF d.nodeType = "FunctionDefinition"
                    THEN ScopeStatement(
                             d.functionBody,
                             <<{d.parameterList[k].nameToken.value :
                                   k \in 1..Len(d.parameterList)}>>,
                             defined).bad
                    ELSE NamesIn(d.initializer) \ defined
             rest == ScopeDefinitions(definitions, i + 1, defined)
         IN  [globals |-> rest.globals, bad |-> bad \cup rest.bad]

OutOfScope(program) ==
    LET d == ScopeDefinitions(program.definitions, 1, {})
    IN  d.bad \cup ScopeStatements(program.statements, 1, <<{}>>, d.globals).bad

ScopeNames == {"a", "b", "e", "f", "x", "y", "z"}

UndefinedNameError(name) == "Undefined name '" \o name \o "'"

AnalyzerErrors == {analyzer.errors[i] : i \in 1..Len(analyzer.errors)}

\* member access is left out: the walk does not tell a member from a name
UsesMemberAccess(program) ==
    \E list \in {program.statements}
                \cup {program.definitions[i].functionBody.statements :
                         i \in {k \in 1..Len(program.definitions) :
                                   program.definitions[k].nodeType = "FunctionDefinition"}} :
        \E i \in 1..Len(list) :
            /\ list[i].nodeType = "ExpressionStatement"
            /\ list[i].expression.nodeType = "MemberAccess"

C29_OpenScopeWitness ==
    /\ aPc = "analyzed"
    /\ aResult
    /\ \E i \in 1..Len(aSource.definitions) :
          /\ aSource.definitions[i].nodeType = "FunctionDefinition"
          /\ aSource.definitions[i].functionBody.statements
                = <<LetOne("x"), CompoundStatement(<<LetFrom("y", "x")>>), UseOf("x")>>

(***************************************************************************)
(* C30: within one function the stack slots allocateStack hands out never  *)
(* overlap: two Temp operands of different offsets k1, k2 and sizes s1, s2 *)
(* cover disjoint byte ranges [rbp-k1, rbp-k1+s1) and [rbp-k2, rbp-k2+s2), *)
(* for every mix of Byte, DWord and QWord operands, and the cursor         *)
(* restarts at 0 for each function, so a function's first slot lies within *)
(* the first QWord below rbp.                                              *)
(***************************************************************************)
\* the Temp operands of a function's list that lie below rbp
StackSlots(function) ==
    UNION {{t \in OperandsOf(function.instructions[i]) : isTemp(t) /\ t.stackOffest > 0} :
              i \in 1..Len(function.instructions)}

\* [rbp - k1, rbp - k1 + s1) and [rbp - k2, rbp - k2 + s2) share no byte
SlotsDisjoint(t1, t2) ==
    \/ t1.size - t1.stackOffest <= -t2.stackOffest
    \/ t2.size - t2.stackOffest <= -t1.stackOffest

SlotsApart(function) ==
    /\ \A t1 \in StackSlots(function), t2 \in StackSlots(function) :
           t1.stackOffest # t2.stackOffest => SlotsDisjoint(t1, t2)
    /\ \A t \in StackSlots(function) : t.size <= t.stackOffest
    /\ StackSlots(function) # {} => \E t \in StackSlots(function) : t.stackOffest <= QWord

=============================================================================
